---------------------------- MODULE Spec2Model ----------------------------
(***************************************************************************)
(* storyblok-to-zod: the component dependency resolution and schema        *)
(* emission pipeline (componentProcessor, bloksHandler, typeConverter,     *)
(* convertComponentJsonToZod, dependencyAnalyzer, outputGenerator).        *)
(***************************************************************************)
EXTENDS Naturals, Integers, Sequences, FiniteSets, TLC

VARIABLES
    pc,                     \* position of the run / of the function under check
    componentDependencies,  \* Map<string, string[]>: [keys: insertion order, deps: key -> list]
    sortResult,             \* what performTopologicalSort returned or threw
    convertedComponents,    \* ConvertedComponents: Map<string, string> in insertion order
    value,                  \* the field descriptor handed to the Field-Type Mapper
    zodType,                \* what the Field-Type Mapper returned
    files,                  \* the components directory: file name -> what reading it gives
    idx,                    \* convertComponents: position of the loop in sortedComponents
    lastConversion,         \* the component last attempted and how its conversion ended
    nativeSchemas,          \* NativeSchemaRegistry.nativeSchemas, in insertion order
    usedNativeSchemas,      \* NativeSchemaRegistry.usedNativeSchemas, in insertion order
    usedSchemas,            \* analyzeNativeSchemaDependencies: the snapshot still to walk
    callStack,              \* the active calls of findIndirectDependencies, innermost last
    now,                    \* the last reading of Date.now()
    output                  \* what generateFinalOutput wrote

sortVars == <<componentDependencies, sortResult>>
fieldVars == <<value, zodType>>
runVars == <<files, idx, lastConversion>>
nativeVars == <<nativeSchemas, usedNativeSchemas>>
analysisVars == <<usedSchemas, callStack, now>>

vars == <<pc, componentDependencies, sortResult, convertedComponents, value, zodType,
          files, idx, lastConversion, nativeSchemas, usedNativeSchemas,
          usedSchemas, callStack, now, output>>

-----------------------------------------------------------------------------
(* Bounds and universes                                                    *)

\* longest dependency list (whitelist concatenation) of one component
MaxDeps == 2

\* file names of the components directory, in directory order
KeyOrder == <<"card", "button", "text-block">>

\* a whitelisted name that no file of the directory defines
Ghost == "ghost"

Names == {KeyOrder[i] : i \in 1..Len(KeyOrder)} \cup {Ghost}

Range(s) == {s[i] : i \in 1..Len(s)}

SeqsUpTo(S, n) == UNION {[1..k -> S] : k \in 0..n}

None == [kind |-> "none"]

\* the property names of the documents of the model, in document order
PropNames == <<"title", "body", "footer">>

\* the variables of the parts of the program a specification does not run
RunIdle == files = None /\ idx = 0 /\ lastConversion = None
NativeIdle == nativeSchemas = <<>> /\ usedNativeSchemas = <<>>
AnalysisIdle == usedSchemas = <<>> /\ callStack = <<>> /\ now = 0 /\ output = None

-----------------------------------------------------------------------------
(* Map<string, string[]> as the code uses it                               *)

MapHas(m, k) == k \in Range(m.keys)

MapGet(m, k) == m.deps[k]

-----------------------------------------------------------------------------
(* performTopologicalSort                                                  *)

NoError == [thrown |-> FALSE]

RECURSIVE visit(_, _, _)
RECURSIVE visitDeps(_, _, _)

RECURSIVE visitDepsFollowAll(_, _, _)
\* mutant: every dependency is visited, a key of the mapping or not
visitDepsFollowAll(cd, deps, st) ==
    IF deps = <<>> \/ st.error.thrown THEN st
    ELSE visitDepsFollowAll(cd, Tail(deps), visit(cd, Head(deps), st))

RECURSIVE visitDepsReversed(_, _, _)
\* mutant: the dependencies of a component are visited from the last to the first
visitDepsReversed(cd, deps, st) ==
    IF deps = <<>> \/ st.error.thrown THEN st
    ELSE LET dep == deps[Len(deps)]
             s1 == IF MapHas(cd, dep) THEN visit(cd, dep, st) ELSE st
         IN visitDepsReversed(cd, SubSeq(deps, 1, Len(deps) - 1), s1)

\* the for-loop over deps: a thrown error leaves the loop at once
visitDeps(cd, deps, st) ==
    IF deps = <<>> \/ st.error.thrown THEN st
    ELSE LET dep == Head(deps)
             s1 == IF MapHas(cd, dep) THEN visit(cd, dep, st) ELSE st
         IN visitDeps(cd, Tail(deps), s1)

\* mutant: the component is pushed before its dependencies are visited
visitPushFirst(cd, component, st) ==
    IF component \in st.tempMarks
    THEN [st EXCEPT !.error = [thrown |-> TRUE, component |-> component]]
    ELSE IF component \notin st.visited
    THEN LET s1 == [st EXCEPT !.tempMarks = @ \cup {component},
                              !.sortedComponents = Append(@, component)]
             deps == IF MapHas(cd, component) THEN MapGet(cd, component) ELSE <<>>
             s2 == visitDeps(cd, deps, s1)
         IN IF s2.error.thrown THEN s2
            ELSE [s2 EXCEPT !.tempMarks = @ \ {component},
                            !.visited = @ \cup {component}]
    ELSE st

\* mutant: a component met again after it was finished is appended once more
visitAppendAgain(cd, component, st) ==
    IF component \in st.tempMarks
    THEN [st EXCEPT !.error = [thrown |-> TRUE, component |-> component]]
    ELSE IF component \notin st.visited
    THEN LET s1 == [st EXCEPT !.tempMarks = @ \cup {component}]
             deps == IF MapHas(cd, component) THEN MapGet(cd, component) ELSE <<>>
             s2 == visitDeps(cd, deps, s1)
         IN IF s2.error.thrown THEN s2
            ELSE [s2 EXCEPT !.tempMarks = @ \ {component},
                            !.visited = @ \cup {component},
                            !.sortedComponents = Append(@, component)]
    ELSE [st EXCEPT !.sortedComponents = Append(@, component)]

\* mutant: one mark set only; a component met again while in progress counts as done
visitNoTempMarks(cd, component, st) ==
    IF component \notin st.visited
    THEN LET s1 == [st EXCEPT !.visited = @ \cup {component}]
             deps == IF MapHas(cd, component) THEN MapGet(cd, component) ELSE <<>>
             s2 == visitDeps(cd, deps, s1)
         IN [s2 EXCEPT !.sortedComponents = Append(@, component)]
    ELSE st

visit(cd, component, st) ==
    IF component \in st.tempMarks
    THEN [st EXCEPT !.error = [thrown |-> TRUE, component |-> component]]
    ELSE IF component \notin st.visited
    THEN LET s1 == [st EXCEPT !.tempMarks = @ \cup {component}]
             deps == IF MapHas(cd, component) THEN MapGet(cd, component) ELSE <<>>
             s2 == visitDeps(cd, deps, s1)
         IN IF s2.error.thrown THEN s2
            ELSE [s2 EXCEPT !.tempMarks = @ \ {component},
                            !.visited = @ \cup {component},
                            !.sortedComponents = Append(@, component)]
    ELSE st

RECURSIVE visitKeysReversed(_, _, _)
\* mutant: the keys are visited from the last to the first
visitKeysReversed(cd, keys, st) ==
    IF keys = <<>> \/ st.error.thrown THEN st
    ELSE visitKeysReversed(cd, SubSeq(keys, 1, Len(keys) - 1),
                           visit(cd, keys[Len(keys)], [st EXCEPT !.tempMarks = {}]))

RECURSIVE visitKeys(_, _, _)
\* the for-loop over componentDependencies.keys(), a fresh tempMarks per key
visitKeys(cd, keys, st) ==
    IF keys = <<>> \/ st.error.thrown THEN st
    ELSE visitKeys(cd, Tail(keys), visit(cd, Head(keys), [st EXCEPT !.tempMarks = {}]))

\* mutant: the error names the key whose round of the loop met the cycle
performTopologicalSortNamesRoot(cd) ==
    LET st == visitKeys(cd, cd.keys,
                        [sortedComponents |-> <<>>, visited |-> {},
                         tempMarks |-> {}, error |-> NoError])
    IN IF st.error.thrown
       THEN [kind |-> "ValidationError",
             component |-> cd.keys[CHOOSE i \in 1..Len(cd.keys) :
                                      /\ cd.keys[i] \notin st.visited
                                      /\ \A j \in 1..(i - 1) : cd.keys[j] \in st.visited]]
       ELSE [kind |-> "order", sortedComponents |-> st.sortedComponents]

\* mutant: the keys are returned in insertion order
performTopologicalSortInsertionOrder(cd) == [kind |-> "order", sortedComponents |-> cd.keys]

performTopologicalSort(cd) ==
    LET st == visitKeys(cd, cd.keys,
                        [sortedComponents |-> <<>>, visited |-> {},
                         tempMarks |-> {}, error |-> NoError])
    IN IF st.error.thrown
       THEN [kind |-> "ValidationError", component |-> st.error.component]
       ELSE [kind |-> "order", sortedComponents |-> st.sortedComponents]

-----------------------------------------------------------------------------
(* JSON values of a component document, and the JavaScript tests on them   *)

Undefined == [t |-> "undefined", v |-> ""]
JsonNull == [t |-> "null", v |-> "null"]
JsonString(x) == [t |-> "string", v |-> x]
JsonBoolean(x) == [t |-> "boolean", v |-> x]
JsonNumber(x) == [t |-> "number", v |-> x]
JsonArray(items) == [t |-> "array", v |-> items]

\* ToBoolean
Truthy(j) ==
    CASE j.t = "undefined" -> FALSE
      [] j.t = "null" -> FALSE
      [] j.t = "string" -> j.v # ""
      [] j.t = "boolean" -> j.v = "true"
      [] j.t = "number" -> j.v # "0"
      [] OTHER -> TRUE

\* string conversion in a template literal
TemplateString(j) == IF j.t = "undefined" THEN "undefined" ELSE j.v

IsArray(j) == j.t = "array"

-----------------------------------------------------------------------------
(* Generated text: a sequence of lines, a line a sequence of tokens; the   *)
(* text itself is the concatenation of the tokens, lines joined by "\n"    *)

RECURSIVE Concat(_)
Concat(tokens) == IF tokens = <<>> THEN "" ELSE Head(tokens) \o Concat(Tail(tokens))

RECURSIVE JoinWith(_, _)
\* Array.prototype.join over token sequences
JoinWith(parts, sep) ==
    IF parts = <<>> THEN <<>>
    ELSE IF Len(parts) = 1 THEN Head(parts)
    ELSE Head(parts) \o <<sep>> \o JoinWith(Tail(parts), sep)

-----------------------------------------------------------------------------
(* kebabToCamelCase, on the characters of the names of the model           *)

Chars(text) ==
    CASE text = "card" -> <<"c", "a", "r", "d">>
      [] text = "button" -> <<"b", "u", "t", "t", "o", "n">>
      [] text = "text-block" -> <<"t", "e", "x", "t", "-", "b", "l", "o", "c", "k">>
      [] text = "ghost" -> <<"g", "h", "o", "s", "t">>
      [] text = "card_story" -> <<"c", "a", "r", "d", "_", "s", "t", "o", "r", "y">>
      [] text = "card-story" -> <<"c", "a", "r", "d", "-", "s", "t", "o", "r", "y">>
      [] text = "hero2" -> <<"h", "e", "r", "o", "2">>
      [] text = "hero-2" -> <<"h", "e", "r", "o", "-", "2">>
      [] text = "storyblok-asset" ->
            <<"s", "t", "o", "r", "y", "b", "l", "o", "k", "-", "a", "s", "s", "e", "t">>
      [] text = "StoryblokAsset" ->
            <<"S", "t", "o", "r", "y", "b", "l", "o", "k", "A", "s", "s", "e", "t">>
      [] text = "StoryblokMultilink" ->
            <<"S", "t", "o", "r", "y", "b", "l", "o", "k", "M", "u", "l", "t", "i", "l", "i",
              "n", "k">>
      [] text = "StoryblokRichtext" ->
            <<"S", "t", "o", "r", "y", "b", "l", "o", "k", "R", "i", "c", "h", "t", "e", "x",
              "t">>
      [] text = "ISbStoryData" -> <<"I", "S", "b", "S", "t", "o", "r", "y", "D", "a", "t", "a">>

Lower == <<"a", "b", "c", "d", "e", "f", "g", "h", "i", "j", "k", "l", "m",
           "n", "o", "p", "q", "r", "s", "t", "u", "v", "w", "x", "y", "z">>
Upper == <<"A", "B", "C", "D", "E", "F", "G", "H", "I", "J", "K", "L", "M",
           "N", "O", "P", "Q", "R", "S", "T", "U", "V", "W", "X", "Y", "Z">>
Digits == {"0", "1", "2", "3", "4", "5", "6", "7", "8", "9"}

\* the class \w
IsWordChar(c) == c \in Range(Lower) \cup Range(Upper) \cup Digits \cup {"_"}

toUpperCase(c) ==
    IF c \in Range(Lower) THEN Upper[CHOOSE i \in 1..Len(Lower) : Lower[i] = c] ELSE c

\* the match "-x" with its first "-" removed, upper-cased
clearAndUpper(match) == toUpperCase(match[2])

RECURSIVE replaceHyphenWord(_)
\* String.prototype.replace(/-\w/g, clearAndUpper), left to right, matches not overlapping
replaceHyphenWord(cs) ==
    IF cs = <<>> THEN <<>>
    ELSE IF Head(cs) = "-" /\ Len(cs) >= 2 /\ IsWordChar(cs[2])
    THEN <<clearAndUpper(SubSeq(cs, 1, 2))>> \o replaceHyphenWord(SubSeq(cs, 3, Len(cs)))
    ELSE <<Head(cs)>> \o replaceHyphenWord(Tail(cs))

kebabToCamelCase(text) == Concat(replaceHyphenWord(Chars(text)))

-----------------------------------------------------------------------------
(* ConvertedComponents                                                     *)

ConvertedComponents_has(componentName) ==
    \E i \in 1..Len(convertedComponents) : convertedComponents[i].name = componentName

\* mutant: the entry is put in front of the entries the registry holds
ConvertedComponents_addInFront(registry, componentName, zodSchema) ==
    <<[name |-> componentName, zodSchema |-> zodSchema]>> \o registry

\* Map.prototype.set: a new key is appended, an existing key keeps its place
ConvertedComponents_add(registry, componentName, zodSchema) ==
    IF \E i \in 1..Len(registry) : registry[i].name = componentName
    THEN [i \in 1..Len(registry) |->
            IF registry[i].name = componentName
            THEN [name |-> componentName, zodSchema |-> zodSchema]
            ELSE registry[i]]
    ELSE Append(registry, [name |-> componentName, zodSchema |-> zodSchema])

-----------------------------------------------------------------------------
(* handleBloksType                                                         *)

ZAny == <<"z.any()">>

\* mutant: an unresolved name is skipped and the resolved ones are kept
validateWhitelistSkipUnresolved(whitelist, validComponents) ==
    LET resolved == SelectSeq(whitelist,
                        LAMBDA c : Truthy(c) /\ c.t = "string" /\ ConvertedComponents_has(c.v))
    IN [fallback |-> FALSE,
        validComponents |-> validComponents \o [i \in 1..Len(resolved) |-> resolved[i].v]]

RECURSIVE validateWhitelist(_, _)
\* the loop over component_whitelist: the valid names, or the fallback at the first
\* name that the registry does not hold
validateWhitelist(whitelist, validComponents) ==
    IF whitelist = <<>> THEN [fallback |-> FALSE, validComponents |-> validComponents]
    ELSE LET componentName == Head(whitelist)
         IN IF ~Truthy(componentName) \/ componentName.t # "string"
            THEN validateWhitelist(Tail(whitelist), validComponents)
            ELSE IF ~ConvertedComponents_has(componentName.v)
            THEN [fallback |-> TRUE, validComponents |-> validComponents]
            ELSE validateWhitelist(Tail(whitelist), Append(validComponents, componentName.v))

SchemaSymbol(componentName) == kebabToCamelCase(componentName) \o "Schema"

\* mutant: a single resolved name is wrapped in a union like several
handleBloksTypeAlwaysUnion(field, parentComponentName) ==
    IF ~IsArray(field.component_whitelist) THEN ZAny
    ELSE IF Len(field.component_whitelist.v) = 0 THEN ZAny
    ELSE LET r == validateWhitelist(field.component_whitelist.v, <<>>)
             validComponents == r.validComponents
         IN IF r.fallback THEN ZAny
            ELSE IF Len(validComponents) = 0 THEN ZAny
            ELSE <<"z.union([">>
                 \o JoinWith([i \in 1..Len(validComponents) |->
                                 <<SchemaSymbol(validComponents[i])>>], ", ")
                 \o <<"])">>

handleBloksType(field, parentComponentName) ==
    IF ~IsArray(field.component_whitelist) THEN ZAny
    ELSE IF Len(field.component_whitelist.v) = 0 THEN ZAny
    ELSE LET r == validateWhitelist(field.component_whitelist.v, <<>>)
             validComponents == r.validComponents
         IN IF r.fallback THEN ZAny
            ELSE IF Len(validComponents) = 0 THEN ZAny
            ELSE IF Len(validComponents) = 1 THEN <<SchemaSymbol(validComponents[1])>>
            ELSE <<"z.union([">>
                 \o JoinWith([i \in 1..Len(validComponents) |->
                                 <<SchemaSymbol(validComponents[i])>>], ", ")
                 \o <<"])">>

-----------------------------------------------------------------------------
(* convertSbToZodType                                                      *)

stringTypes == {"text", "textarea", "markdown"}

\* Array.prototype.includes and ===: a value that is not a string equals no tag
TypeIs(storyblokType, tag) == storyblokType.t = "string" /\ storyblokType.v = tag

\* mutant: the fallback of an unhandled tag is z.<tag>()
convertSbToZodTypeTagFallback(field, parentComponentName) ==
    IF ~Truthy(field.type) THEN ZAny
    ELSE LET storyblokType == field.type
         IN IF \E tag \in stringTypes : TypeIs(storyblokType, tag) THEN <<"z.string()">>
            ELSE IF TypeIs(storyblokType, "bloks") THEN handleBloksType(field, parentComponentName)
            ELSE IF TypeIs(storyblokType, "multilink") THEN <<"storyblokMultilinkSchema">>
            ELSE IF TypeIs(storyblokType, "asset") THEN <<"storyblokAssetSchema">>
            ELSE IF TypeIs(storyblokType, "richtext") THEN <<"storyblokRichtextSchema">>
            ELSE <<"z." \o TemplateString(storyblokType) \o "()">>

convertSbToZodType(field, parentComponentName) ==
    IF ~Truthy(field.type) THEN ZAny
    ELSE LET storyblokType == field.type
         IN IF \E tag \in stringTypes : TypeIs(storyblokType, tag) THEN <<"z.string()">>
            ELSE IF TypeIs(storyblokType, "bloks") THEN handleBloksType(field, parentComponentName)
            ELSE IF TypeIs(storyblokType, "multilink") THEN <<"storyblokMultilinkSchema">>
            ELSE IF TypeIs(storyblokType, "option") THEN <<"z.union([z.number(), z.string()])">>
            ELSE IF TypeIs(storyblokType, "options")
                 THEN <<"z.array(z.union([z.number(), z.string()]))">>
            ELSE IF TypeIs(storyblokType, "asset") THEN <<"storyblokAssetSchema">>
            ELSE IF TypeIs(storyblokType, "richtext") THEN <<"storyblokRichtextSchema">>
            ELSE IF TypeIs(storyblokType, "number") THEN <<"z.number()">>
            ELSE IF TypeIs(storyblokType, "boolean") THEN <<"z.boolean()">>
            ELSE IF TypeIs(storyblokType, "datetime") THEN <<"z.string().datetime()">>
            ELSE <<"z.any() /* Unknown type: " \o TemplateString(storyblokType) \o " */">>

-----------------------------------------------------------------------------
(* Strings as texts: "\n"-separated lines                                  *)

\* the empty string: one empty line
EmptyText == << <<>> >>

\* a + b
StrAppend(a, b) == SubSeq(a, 1, Len(a) - 1) \o << a[Len(a)] \o b[1] >> \o Tail(b)

\* [a, b, ...].join("\n")
RECURSIVE JoinLines(_)
JoinLines(texts) ==
    IF texts = <<>> THEN EmptyText
    ELSE IF Len(texts) = 1 THEN texts[1]
    ELSE texts[1] \o JoinLines(Tail(texts))

-----------------------------------------------------------------------------
(* validation.ts                                                           *)

\* /^[a-z][a-z0-9]*(-[a-z0-9]+)*$/
kebabCaseRegex(cs) ==
    /\ Len(cs) >= 1
    /\ cs[1] \in Range(Lower)
    /\ \A i \in 1..Len(cs) : cs[i] \in Range(Lower) \cup Digits \cup {"-"}
    /\ \A i \in 1..Len(cs) : cs[i] = "-" => (i < Len(cs) /\ cs[i + 1] # "-")

\* TRUE when validateComponentName returns, FALSE when it throws its ValidationError
validateComponentName(componentName) == kebabCaseRegex(Chars(componentName))

isValidComponentSchemaField(fieldValue) ==
    /\ Truthy(fieldValue)
    /\ fieldValue.t = "object"
    /\ fieldValue.type.t = "string"
    /\ fieldValue.type.v # ""

\* the validated schema (the valid fields, in document order), or the ValidationError
validateComponentData(data, componentName) ==
    IF ~Truthy(data) \/ data.t # "object" THEN [kind |-> "ValidationError"]
    ELSE IF ~Truthy(data.schema) \/ data.schema.t # "object" THEN [kind |-> "ValidationError"]
    ELSE LET validatedSchema ==
                 SelectSeq(data.schema.fields,
                           LAMBDA f : isValidComponentSchemaField(f.value))
         IN IF Len(validatedSchema) = 0 THEN [kind |-> "ValidationError"]
            ELSE [kind |-> "ok", schema |-> validatedSchema]

-----------------------------------------------------------------------------
(* safeReadJsonFile                                                        *)

\* the parsed document, or the FileOperationError of an unreadable, empty or
\* unparseable file
safeReadJsonFile(file) ==
    IF file.status = "ok" THEN [kind |-> "ok", data |-> file.data]
    ELSE [kind |-> "FileOperationError"]

-----------------------------------------------------------------------------
(* convertComponentJsonToZod                                               *)

skippableTypes == {"tab", "section"}

\* mutant: required compared with the boolean true
RequiredStrictTrue(field) ==
    IF field.required.t = "boolean" /\ field.required.v = "true"
    THEN field.required ELSE JsonBoolean("false")

\* value.required || false
RequiredOrFalse(field) == IF Truthy(field.required) THEN field.required ELSE JsonBoolean("false")

\* one round of the loop over the schema's properties (lines 65-99)
convertField(outputContent, propName, fieldValue, componentName) ==
    IF ~Truthy(fieldValue) THEN outputContent
    ELSE IF ~isValidComponentSchemaField(fieldValue)
    THEN StrAppend(outputContent, << <<"  ", propName, ": ", "z.any()", ",">>, <<>> >>)
    ELSE IF \E tag \in skippableTypes : TypeIs(fieldValue.type, tag) THEN outputContent
    ELSE LET required == RequiredOrFalse(fieldValue)
             zod == convertSbToZodType(fieldValue, componentName)
             member == <<"  ", propName, ": ">> \o zod
             marked == IF ~Truthy(required) THEN member \o <<".optional()">> ELSE member
         IN StrAppend(outputContent, << marked \o <<",">>, <<>> >>)

RECURSIVE convertFields(_, _, _)
convertFields(outputContent, schemaData, componentName) ==
    IF schemaData = <<>> THEN outputContent
    ELSE convertFields(convertField(outputContent, Head(schemaData).name,
                                    Head(schemaData).value, componentName),
                       Tail(schemaData), componentName)

\* the story-wrapper template (lines 111-159)
isbVariantContent(isbVariantName, componentNameCamel) ==
    << <<"export const ", isbVariantName, ": z.ZodSchema<", "ISbStoryData",
         " & { content: z.infer<typeof ", componentNameCamel,
         "> }> = z.lazy(() => z.object({">>,
       <<"  ", "alternates", ": z.array(", "iSbAlternateObjectSchema", "),">>,
       <<"  ", "breadcrumbs", ": z.array(", "iSbLinkURLObjectSchema", ").optional(),">>,
       <<"  ", "content", ": ", componentNameCamel, ",">>,
       <<"  ", "created_at", ": z.string(),">>,
       <<"  ", "deleted_at", ": z.string().optional(),">>,
       <<"  ", "default_full_slug", ": z.string().optional().nullable(),">>,
       <<"  ", "default_root", ": z.string().optional(),">>,
       <<"  ", "disable_fe_editor", ": z.boolean().optional(),">>,
       <<"  ", "favourite_for_user_ids", ": z.array(z.number()).optional().nullable(),">>,
       <<"  ", "first_published_at", ": z.string().optional().nullable(),">>,
       <<"  ", "full_slug", ": z.string(),">>,
       <<"  ", "group_id", ": z.string(),">>,
       <<"  ", "id", ": z.number(),">>,
       <<"  ", "imported_at", ": z.string().optional(),">>,
       <<"  ", "is_folder", ": z.boolean().optional(),">>,
       <<"  ", "is_startpage", ": z.boolean().optional(),">>,
       <<"  ", "lang", ": z.string(),">>,
       <<"  ", "last_author", ": z.object({">>,
       <<"    ", "id", ": z.number(),">>,
       <<"    ", "userid", ": z.string()">>,
       <<"  }).optional(),">>,
       <<"  ", "last_author_id", ": z.number().optional(),">>,
       <<"  ", "localized_paths", ": z.array(", "localizedPathSchema", ").optional().nullable(),">>,
       <<"  ", "meta_data", ": z.any(),">>,
       <<"  ", "name", ": z.string(),">>,
       <<"  ", "parent", ": ", "iSbStoryDataSchema", ".optional(),">>,
       <<"  ", "parent_id", ": z.number().nullable(),">>,
       <<"  ", "path", ": z.string().optional(),">>,
       <<"  ", "pinned", ": z.union([z.literal(\"1\"), z.boolean()]).optional(),">>,
       <<"  ", "position", ": z.number(),">>,
       <<"  ", "preview_token", ": ", "previewTokenSchema", ".optional(),">>,
       <<"  ", "published", ": z.boolean().optional(),">>,
       <<"  ", "published_at", ": z.string().nullable(),">>,
       <<"  ", "release_id", ": z.number().optional().nullable(),">>,
       <<"  ", "scheduled_date", ": z.string().optional().nullable(),">>,
       <<"  ", "slug", ": z.string(),">>,
       <<"  ", "sort_by_date", ": z.string().nullable(),">>,
       <<"  ", "tag_list", ": z.array(z.string()),">>,
       <<"  ", "translated_slugs", ": z.array(z.object({">>,
       <<"    ", "path", ": z.string(),">>,
       <<"    ", "name", ": z.string().nullable(),">>,
       <<"    ", "lang", ": z.string(),">>,
       <<"    ", "published", ": z.boolean()">>,
       <<"  })).optional().nullable(),">>,
       <<"  ", "unpublished_changes", ": z.boolean().optional(),">>,
       <<"  ", "updated_at", ": z.string().optional(),">>,
       <<"  ", "uuid", ": z.string()">>,
       <<"}));">>,
       <<>> >>

\* the text of the component's declaration (lines 59-101), read against the registry
\* as it is before the component is added
componentOutputContent(componentName, schemaData) ==
    LET componentNameCamel == SchemaSymbol(componentName)
        opening == << <<"export const ", componentNameCamel, " = z.object({">>, <<>> >>
    IN StrAppend(convertFields(opening, schemaData, componentName), << <<"});">>, <<>> >>)

\* mutant: the story wrapper is registered whether or not the story interface is
convertComponentJsonToZodAlwaysStory(componentName, file, hasISbStoryData) ==
    IF ~validateComponentName(componentName) THEN [kind |-> "ValidationError"]
    ELSE LET read == safeReadJsonFile(file)
         IN IF read.kind # "ok" THEN [kind |-> read.kind]
            ELSE LET jsonData == validateComponentData(read.data, componentName)
                 IN IF jsonData.kind # "ok" THEN [kind |-> jsonData.kind]
                    ELSE LET outputContent == componentOutputContent(componentName, jsonData.schema)
                             added == ConvertedComponents_add(convertedComponents,
                                                              componentName, outputContent)
                         IN [kind |-> "ok",
                             outputContent |-> outputContent,
                             registry |->
                                ConvertedComponents_add(added, componentName \o "_story",
                                        isbVariantContent(
                                            kebabToCamelCase(componentName) \o "StorySchema",
                                            SchemaSymbol(componentName)))]

\* the registry after the call, or the error the call throws; hasISbStoryData is
\* NativeSchemaRegistry.has("ISbStoryData")
convertComponentJsonToZod(componentName, file, hasISbStoryData) ==
    IF ~validateComponentName(componentName) THEN [kind |-> "ValidationError"]
    ELSE LET read == safeReadJsonFile(file)
         IN IF read.kind # "ok" THEN [kind |-> read.kind]
            ELSE LET jsonData == validateComponentData(read.data, componentName)
                 IN IF jsonData.kind # "ok" THEN [kind |-> jsonData.kind]
                    ELSE LET outputContent == componentOutputContent(componentName, jsonData.schema)
                             added == ConvertedComponents_add(convertedComponents,
                                                              componentName, outputContent)
                         IN [kind |-> "ok",
                             outputContent |-> outputContent,
                             registry |->
                                IF hasISbStoryData
                                THEN ConvertedComponents_add(added, componentName \o "_story",
                                        isbVariantContent(
                                            kebabToCamelCase(componentName) \o "StorySchema",
                                            SchemaSymbol(componentName)))
                                ELSE added]

-----------------------------------------------------------------------------
(* SpecSort: performTopologicalSort applied to every bounded mapping       *)

\* the key sets: the first n file names, in directory order
KeyPrefix(n) == SubSeq(KeyOrder, 1, n)

InitSort ==
    /\ pc = "start"
    /\ \E n \in 0..Len(KeyOrder) :
         \E d \in [Range(KeyPrefix(n)) -> SeqsUpTo(Names, MaxDeps)] :
            componentDependencies = [keys |-> KeyPrefix(n), deps |-> d]
    /\ sortResult = None
    /\ convertedComponents = <<>>
    /\ value = None
    /\ zodType = None
    /\ RunIdle /\ NativeIdle /\ AnalysisIdle

Sort ==
    /\ pc = "start"
    /\ sortResult' = performTopologicalSort(componentDependencies)
    /\ pc' = "sorted"
    /\ UNCHANGED <<componentDependencies, convertedComponents, fieldVars, runVars, nativeVars,
                   analysisVars, output>>

NextSort == Sort

SpecSort == InitSort /\ [][NextSort]_vars

-----------------------------------------------------------------------------
(* SpecField: the Field-Type Mapper applied to every bounded field         *)
(* descriptor, against every registry content a run can have built         *)

\* longest component_whitelist of a bloks field
MaxWhitelist == 3

\* what a whitelist may hold: component names, the empty string, null
FieldObject(type, required, whitelist) ==
    [t |-> "object", v |-> "[object Object]", type |-> type, required |-> required,
     component_whitelist |-> whitelist]

TextField == FieldObject(JsonString("text"), JsonBoolean("true"), Undefined)

\* the tags of the vocabulary, one tag outside it
TypeTags == {"text", "textarea", "markdown", "number", "boolean", "datetime", "option",
             "options", "asset", "multilink", "richtext", "bloks", "tab", "section", "xyz"}

\* the registry after the components of `names` (in directory order) were converted
\* from a document with one text field
RECURSIVE RegistryOf(_, _, _)
RegistryOf(order, names, hasISbStoryData) ==
    IF order = <<>> THEN <<>>
    ELSE LET rest == RegistryOf(SubSeq(order, 1, Len(order) - 1), names, hasISbStoryData)
             n == order[Len(order)]
             own == ConvertedComponents_add(rest, n,
                        componentOutputContent(n, <<[name |-> "title", value |-> TextField]>>))
         IN IF n \notin names THEN rest
            ELSE IF hasISbStoryData
            THEN ConvertedComponents_add(own, n \o "_story",
                    isbVariantContent(kebabToCamelCase(n) \o "StorySchema", SchemaSymbol(n)))
            ELSE own

InitField ==
    /\ pc = "start"
    /\ componentDependencies = None
    /\ sortResult = None
    /\ \E names \in SUBSET Range(KeyOrder), hasISbStoryData \in BOOLEAN :
          convertedComponents = RegistryOf(KeyOrder, names, hasISbStoryData)
    /\ \/ \E tag \in TypeTags \ {"bloks"} :
             value = FieldObject(JsonString(tag), Undefined, Undefined)
       \/ value = FieldObject(Undefined, Undefined, Undefined)
       \/ value = FieldObject(JsonString(""), Undefined, Undefined)
       \/ value = FieldObject(JsonNumber("5"), Undefined, Undefined)
       \/ value = FieldObject(JsonString("bloks"), Undefined, Undefined)
       \/ value = FieldObject(JsonString("bloks"), Undefined, JsonString("card"))
       \/ \E k \in 0..MaxWhitelist :
             \E w \in [1..k -> {JsonString(n) : n \in Names \cup {""}} \cup {JsonNull}] :
                value = FieldObject(JsonString("bloks"), Undefined, JsonArray(w))
    /\ zodType = None
    /\ RunIdle /\ NativeIdle /\ AnalysisIdle

\* convertSbToZodType(value, parentComponentName)
ConvertType ==
    /\ pc = "start"
    /\ zodType' = [kind |-> "returned", tokens |-> convertSbToZodType(value, "page")]
    /\ pc' = "mapped"
    /\ UNCHANGED <<sortVars, convertedComponents, value, runVars, nativeVars, analysisVars,
                   output>>

\* handleBloksType(value, parentComponentName)
HandleBloks ==
    /\ pc = "start"
    /\ TypeIs(value.type, "bloks")
    /\ zodType' = [kind |-> "returned", tokens |-> handleBloksType(value, "page")]
    /\ pc' = "bloks"
    /\ UNCHANGED <<sortVars, convertedComponents, value, runVars, nativeVars, analysisVars,
                   output>>

NextField == ConvertType \/ HandleBloks

SpecField == InitField /\ [][NextField]_vars

-----------------------------------------------------------------------------
(* NativeSchemaRegistry                                                    *)

NativeSchemaRegistry_has(interfaceName) ==
    \E i \in 1..Len(nativeSchemas) : nativeSchemas[i].name = interfaceName

\* Map.prototype.set on the registry of native schemas
NativeSchemaRegistry_set(registry, interfaceName, schemaContent) ==
    IF \E i \in 1..Len(registry) : registry[i].name = interfaceName
    THEN [i \in 1..Len(registry) |->
            IF registry[i].name = interfaceName
            THEN [name |-> interfaceName, schemaContent |-> schemaContent]
            ELSE registry[i]]
    ELSE Append(registry, [name |-> interfaceName, schemaContent |-> schemaContent])

toLowerCase(c) ==
    IF c \in Range(Upper) THEN Lower[CHOOSE i \in 1..Len(Upper) : Upper[i] = c] ELSE c

\* interfaceName.charAt(0).toLowerCase() + interfaceName.slice(1) + "Schema"
interfaceNameToSchemaName(interfaceName) ==
    LET cs == Chars(interfaceName)
        camelCaseName == IF cs = <<>> THEN "" ELSE Concat(<<toLowerCase(cs[1])>> \o Tail(cs))
    IN camelCaseName \o "Schema"

-----------------------------------------------------------------------------
(* buildDependencyGraph                                                    *)

\* a parsed document { schema: ... } and a schema object with its properties in
\* document order
JsonDocument(schema) == [t |-> "object", v |-> "[object Object]", schema |-> schema]
SchemaObject(fields) == [t |-> "object", v |-> "[object Object]", fields |-> fields]

RECURSIVE collectDependencies(_)
\* the loop over the schema's fields (lines 61-70)
collectDependencies(fields) ==
    IF fields = <<>> THEN <<>>
    ELSE LET field == Head(fields).value
             skip == \/ ~Truthy(field)
                     \/ field.t # "object"
                     \/ ~TypeIs(field.type, "bloks")
                     \/ ~IsArray(field.component_whitelist)
             strings == SelectSeq(field.component_whitelist.v, LAMBDA comp : comp.t = "string")
         IN (IF skip THEN <<>> ELSE [i \in 1..Len(strings) |-> strings[i].v])
            \o collectDependencies(Tail(fields))

RECURSIVE scanComponentsStopAtFailure(_, _)
\* mutant: the first file that cannot be read or has no schema ends the loop
scanComponentsStopAtFailure(componentFiles, cd) ==
    IF componentFiles = <<>> THEN cd
    ELSE LET componentName == Head(componentFiles)
             read == safeReadJsonFile(files.content[componentName])
             schemaData == IF read.kind = "ok" /\ read.data.t = "object"
                           THEN read.data.schema ELSE Undefined
             dependencies == IF schemaData.t = "object"
                             THEN collectDependencies(schemaData.fields) ELSE <<>>
         IN IF read.kind # "ok" \/ ~Truthy(schemaData)
            THEN cd
            ELSE scanComponentsStopAtFailure(Tail(componentFiles),
                                [keys |-> Append(cd.keys, componentName),
                                 deps |-> (componentName :> dependencies) @@ cd.deps])

RECURSIVE scanComponents(_, _)
\* the loop over the component files (lines 49-82): a file that cannot be read, or
\* has no schema, gets no key
scanComponents(componentFiles, cd) ==
    IF componentFiles = <<>> THEN cd
    ELSE LET componentName == Head(componentFiles)
             read == safeReadJsonFile(files.content[componentName])
             schemaData == IF read.kind = "ok" /\ read.data.t = "object"
                           THEN read.data.schema ELSE Undefined
             dependencies == IF schemaData.t = "object"
                             THEN collectDependencies(schemaData.fields) ELSE <<>>
         IN IF read.kind # "ok" \/ ~Truthy(schemaData)
            THEN scanComponents(Tail(componentFiles), cd)
            ELSE scanComponents(Tail(componentFiles),
                                [keys |-> Append(cd.keys, componentName),
                                 deps |-> (componentName :> dependencies) @@ cd.deps])

buildDependencyGraph(componentFiles) == scanComponents(componentFiles, [keys |-> <<>>, deps |-> <<>>])

-----------------------------------------------------------------------------
(* main, from the discovered component files to the end of convertComponents *)

\* mutant: a cycle is not fatal, the components are converted in directory order
BuildDependencyGraphIgnoresCycle ==
    /\ pc = "discovered"
    /\ componentDependencies' = buildDependencyGraph(files.names)
    /\ sortResult' =
          IF performTopologicalSort(componentDependencies').kind = "order"
          THEN performTopologicalSort(componentDependencies')
          ELSE performTopologicalSortInsertionOrder(componentDependencies')
    /\ pc' = "converting"
    /\ idx' = 1
    /\ UNCHANGED <<convertedComponents, fieldVars, files, lastConversion, nativeVars,
                   analysisVars, output>>

\* buildDependencyGraph with its sort; a ValidationError of the sort reaches
\* handleError, which exits with status 1
BuildDependencyGraph ==
    /\ pc = "discovered"
    /\ componentDependencies' = buildDependencyGraph(files.names)
    /\ sortResult' = performTopologicalSort(componentDependencies')
    /\ IF sortResult'.kind = "order"
       THEN pc' = "converting" /\ idx' = 1
       ELSE pc' = "exit1" /\ idx' = idx
    /\ UNCHANGED <<convertedComponents, fieldVars, files, lastConversion, nativeVars,
                   analysisVars, output>>

\* mutant: the loop goes on after every error
ConvertComponentContinuesAlways ==
    /\ pc = "converting"
    /\ idx <= Len(sortResult.sortedComponents)
    /\ LET componentName == sortResult.sortedComponents[idx]
           r == convertComponentJsonToZod(componentName, files.content[componentName],
                                          NativeSchemaRegistry_has("ISbStoryData"))
       IN \/ /\ lastConversion' = [componentName |-> componentName, kind |-> r.kind]
             /\ convertedComponents' = IF r.kind = "ok" THEN r.registry ELSE convertedComponents
          \/ /\ lastConversion' = [componentName |-> componentName, kind |-> "Error"]
             /\ convertedComponents' = convertedComponents
    /\ idx' = idx + 1
    /\ pc' = "converting"
    /\ UNCHANGED <<sortVars, fieldVars, files, nativeVars, analysisVars, output>>

\* one round of the loop of convertComponents (lines 138-154)
ConvertComponent ==
    /\ pc = "converting"
    /\ idx <= Len(sortResult.sortedComponents)
    /\ LET componentName == sortResult.sortedComponents[idx]
           r == convertComponentJsonToZod(componentName, files.content[componentName],
                                          NativeSchemaRegistry_has("ISbStoryData"))
       IN \/ /\ lastConversion' = [componentName |-> componentName, kind |-> r.kind]
             /\ convertedComponents' = IF r.kind = "ok" THEN r.registry ELSE convertedComponents
             /\ idx' = idx + 1
             /\ pc' = "converting"
          \* an error that is neither a ValidationError nor a FileOperationError is
          \* thrown on (line 152) and reaches handleError
          \/ /\ lastConversion' = [componentName |-> componentName, kind |-> "Error"]
             /\ convertedComponents' = convertedComponents
             /\ idx' = idx
             /\ pc' = "exit1"
    /\ UNCHANGED <<sortVars, fieldVars, files, nativeVars, analysisVars, output>>

\* the loop is over (lines 156-157)
ConvertComponentsReturns ==
    /\ pc = "converting"
    /\ idx > Len(sortResult.sortedComponents)
    /\ pc' = "converted"
    /\ UNCHANGED <<sortVars, convertedComponents, fieldVars, runVars, nativeVars, analysisVars,
                   output>>

NextConvert == BuildDependencyGraph \/ ConvertComponent \/ ConvertComponentsReturns

-----------------------------------------------------------------------------
(* What the interface file registered before the components are read       *)

RECURSIVE nativeMembers(_, _)
nativeMembers(refs, i) ==
    IF refs = <<>> THEN <<>>
    ELSE << <<"  ", PropNames[i], ": ", interfaceNameToSchemaName(Head(refs)), ".optional(),">> >>
         \o nativeMembers(Tail(refs), i + 1)

\* the cleaned declaration that extractSbInterfaceToZod returns for an interface whose
\* members are of the interface types `refs`
nativeSchemaContent(interfaceName, refs) ==
    << <<"export const ", interfaceNameToSchemaName(interfaceName), " = z.object({">> >>
    \o << <<"  ", "id", ": z.number(),">> >>
    \o nativeMembers(refs, 1)
    \o << <<"});">> >>

\* the registry with or without the story interface
StoryRegistry(hasISbStoryData) ==
    IF hasISbStoryData
    THEN NativeSchemaRegistry_set(<<>>, "ISbStoryData", nativeSchemaContent("ISbStoryData", <<>>))
    ELSE <<>>

-----------------------------------------------------------------------------
(* SpecComponent: a directory of one component whose fields vary in type   *)
(* and in their `required` member                                          *)

\* most fields of the component
MaxFields == 2

RequiredValues ==
    {Undefined, JsonNull, JsonBoolean("true"), JsonBoolean("false"), JsonString("false"),
     JsonString("yes"), JsonString(""), JsonNumber("1"), JsonNumber("0")}

ComponentFieldValues ==
    {FieldObject(JsonString(tag), required, Undefined) :
        tag \in {"text", "asset", "tab", "xyz"}, required \in RequiredValues}
    \cup {JsonNull, JsonString("text"),
          FieldObject(Undefined, Undefined, Undefined),
          FieldObject(JsonString(""), Undefined, Undefined)}

InitComponent ==
    /\ pc = "discovered"
    /\ componentDependencies = None
    /\ sortResult = None
    /\ convertedComponents = <<>>
    /\ value = None
    /\ zodType = None
    /\ \E k \in 0..MaxFields : \E fs \in [1..k -> ComponentFieldValues] :
          files = [names |-> <<KeyOrder[1]>>,
                   content |-> KeyOrder[1] :>
                       [status |-> "ok",
                        data |-> JsonDocument(SchemaObject(
                                    [i \in 1..k |-> [name |-> PropNames[i], value |-> fs[i]]]))]]
    /\ idx = 0
    /\ lastConversion = None
    /\ \E hasISbStoryData \in BOOLEAN : nativeSchemas = StoryRegistry(hasISbStoryData)
    /\ usedNativeSchemas = <<>>
    /\ AnalysisIdle

SpecComponent == InitComponent /\ [][NextConvert]_vars

-----------------------------------------------------------------------------
(* SpecPipeline: a directory of three components whose bloks fields name   *)
(* each other                                                              *)

\* most whitelist entries in the whole directory
MaxEdges == 3

DocKinds == {"unreadable", "noschema", "novalid", "doc", "doc2"}

\* the whitelist entries of file n among the (owner, name) pairs, in their order
WhitelistOf(edges, n) ==
    LET own == SelectSeq(edges, LAMBDA e : e[1] = n)
    IN [i \in 1..Len(own) |-> JsonString(own[i][2])]

BloksField(whitelist) == FieldObject(JsonString("bloks"), Undefined, JsonArray(whitelist))

\* what reading the file gives: an unreadable or unparseable file, a document
\* without schema, a schema without one valid field, a text field followed by one
\* bloks field, or by two
MakeFile(kind, w) ==
    CASE kind = "unreadable" -> [status |-> "unreadable", data |-> Undefined]
      [] kind = "noschema" -> [status |-> "ok", data |-> JsonDocument(Undefined)]
      [] kind = "novalid" ->
            [status |-> "ok",
             data |-> JsonDocument(SchemaObject(
                         <<[name |-> PropNames[1], value |-> JsonString("text")]>>))]
      [] kind = "doc" ->
            [status |-> "ok",
             data |-> JsonDocument(SchemaObject(
                         <<[name |-> PropNames[1], value |-> TextField]>>
                         \o (IF w = <<>> THEN <<>>
                             ELSE <<[name |-> PropNames[2], value |-> BloksField(w)]>>)))]
      [] kind = "doc2" ->
            [status |-> "ok",
             data |-> JsonDocument(SchemaObject(
                         <<[name |-> PropNames[1], value |-> TextField],
                           [name |-> PropNames[2], value |-> BloksField(SubSeq(w, 1, 1))],
                           [name |-> PropNames[3], value |-> BloksField(Tail(w))]>>))]

\* the directories whose files are of the kinds `kinds`
InitDirectory(kinds) ==
    /\ pc = "discovered"
    /\ componentDependencies = None
    /\ sortResult = None
    /\ convertedComponents = <<>>
    /\ value = None
    /\ zodType = None
    /\ \E k \in 0..MaxEdges :
         \E edges \in [1..k -> Range(KeyOrder) \X Names], kind \in [Range(KeyOrder) -> kinds] :
            /\ \A n \in Range(KeyOrder) :
                  /\ kind[n] \in {"unreadable", "noschema", "novalid"} => WhitelistOf(edges, n) = <<>>
                  /\ kind[n] = "doc2" => Len(WhitelistOf(edges, n)) >= 2
            /\ files = [names |-> KeyOrder,
                        content |-> [n \in Range(KeyOrder) |->
                                        MakeFile(kind[n], WhitelistOf(edges, n))]]
    /\ idx = 0
    /\ lastConversion = None
    /\ \E hasISbStoryData \in BOOLEAN : nativeSchemas = StoryRegistry(hasISbStoryData)
    /\ usedNativeSchemas = <<>>
    /\ AnalysisIdle

InitPipeline == InitDirectory(DocKinds)

SpecPipeline == InitPipeline /\ [][NextConvert]_vars

-----------------------------------------------------------------------------
(* analyzeNativeSchemaDependencies                                         *)

\* NativeSchemaRegistry.get; None stands for undefined
NativeSchemaRegistry_get(interfaceName) ==
    IF NativeSchemaRegistry_has(interfaceName)
    THEN nativeSchemas[CHOOSE i \in 1..Len(nativeSchemas) :
                          nativeSchemas[i].name = interfaceName].schemaContent
    ELSE None

NativeSchemaRegistry_isUsed(used, interfaceName) ==
    \E i \in 1..Len(used) : used[i].name = interfaceName

\* NativeSchemaRegistry.markAsUsed: the test of schemaContent is one of truthiness,
\* undefined and the empty string both fail it
NativeSchemaRegistry_markAsUsed(used, interfaceName) ==
    LET schemaContent == NativeSchemaRegistry_get(interfaceName)
    IN IF NativeSchemaRegistry_has(interfaceName) /\ schemaContent # EmptyText
       THEN NativeSchemaRegistry_set(used, interfaceName, schemaContent)
       ELSE used

RECURSIVE getIdentifiers(_)
\* getDescendantsOfKind(SyntaxKind.Identifier), in source order: the tokens of the
\* text; a token that is no identifier holds punctuation and equals no schema name
getIdentifiers(text) ==
    IF Len(text) = 0 THEN <<>>
    ELSE IF Len(text) = 1 THEN text[1]
    ELSE LET half == Len(text) \div 2
         IN getIdentifiers(SubSeq(text, 1, half))
            \o getIdentifiers(SubSeq(text, half + 1, Len(text)))

RECURSIVE buildReferences(_, _)
\* the Map schemaName -> interfaceName of lines 25-29, in insertion order
buildReferences(registry, references) ==
    IF registry = <<>> THEN references
    ELSE LET interfaceName == Head(registry).name
             schemaName == interfaceNameToSchemaName(interfaceName)
         IN buildReferences(Tail(registry),
               IF \E i \in 1..Len(references) : references[i].schemaName = schemaName
               THEN [i \in 1..Len(references) |->
                       IF references[i].schemaName = schemaName
                       THEN [schemaName |-> schemaName, interfaceName |-> interfaceName]
                       ELSE references[i]]
               ELSE Append(references,
                           [schemaName |-> schemaName, interfaceName |-> interfaceName]))

nativeSchemaReferences == buildReferences(nativeSchemas, <<>>)

References_has(identifierText) ==
    \E i \in 1..Len(nativeSchemaReferences) :
        nativeSchemaReferences[i].schemaName = identifierText

References_get(identifierText) ==
    nativeSchemaReferences[CHOOSE i \in 1..Len(nativeSchemaReferences) :
        nativeSchemaReferences[i].schemaName = identifierText].interfaceName

\* mutant: every schema name counts as referenced
isSchemaReferencedEverywhere(schemaName, identifiers) == TRUE

isSchemaReferencedInSourceFile(schemaName, identifiers) ==
    \E i \in 1..Len(identifiers) : identifiers[i] = schemaName

RECURSIVE markDirect(_, _, _)
\* the loop of lines 32-39
markDirect(references, identifiers, used) ==
    IF references = <<>> THEN used
    ELSE markDirect(Tail(references), identifiers,
            IF isSchemaReferencedInSourceFile(Head(references).schemaName, identifiers)
            THEN NativeSchemaRegistry_markAsUsed(used, Head(references).interfaceName)
            ELSE used)

\* ConvertedComponents.getAllValues().join("\n")
allComponentContent ==
    JoinLines([i \in 1..Len(convertedComponents) |-> convertedComponents[i].zodSchema])

\* the identifiers of a schema text that the loop of lines 89-105 acts on: those that
\* nativeSchemaReferences has
referenceIdentifiers(schemaContent) ==
    SelectSeq(getIdentifiers(schemaContent), References_has)

\* latest reading of the clock, counted in the distinct readings taken since the
\* outermost active call of findIndirectDependencies read it: a reading is the last
\* one again or a later one, and file names compare by equality of readings only
MaxClock == 2

\* the first part of analyzeNativeSchemaDependencies (lines 10-42): the native schemas
\* that the component text references are marked, the used ones are snapshot
AnalyzeDirect ==
    /\ pc = "converted"
    /\ usedNativeSchemas' =
          markDirect(nativeSchemaReferences, getIdentifiers(allComponentContent),
                     usedNativeSchemas)
    /\ usedSchemas' = [i \in 1..Len(usedNativeSchemas') |-> usedNativeSchemas'[i].schemaContent]
    /\ pc' = "analysing"
    /\ UNCHANGED <<sortVars, convertedComponents, fieldVars, runVars, nativeSchemas, callStack,
                   now, output>>

\* line 44: findIndirectDependencies is called for the next text of the snapshot; no
\* temporary file is in the project when its own is created (line 84)
FindIndirectDependencies ==
    /\ pc = "analysing"
    /\ callStack = <<>>
    /\ usedSchemas # <<>>
    /\ now' = 0
    /\ callStack' = <<[file |-> 0, identifiers |-> referenceIdentifiers(Head(usedSchemas))]>>
    /\ usedSchemas' = Tail(usedSchemas)
    /\ UNCHANGED <<pc, sortVars, convertedComponents, fieldVars, runVars, nativeVars, output>>

\* mutant: the call recurs into a referenced schema whether it is used already or not
ScanIdentifierIgnoresUsed ==
    /\ pc = "analysing"
    /\ callStack # <<>>
    /\ callStack[Len(callStack)].identifiers # <<>>
    /\ LET frame == callStack[Len(callStack)]
           referencedInterfaceName == References_get(Head(frame.identifiers))
           rest == [callStack EXCEPT ![Len(callStack)].identifiers = Tail(frame.identifiers)]
       IN IF NativeSchemaRegistry_has(referencedInterfaceName)
          THEN /\ usedNativeSchemas' =
                     NativeSchemaRegistry_markAsUsed(usedNativeSchemas, referencedInterfaceName)
               /\ \E reading \in {t \in {now, now + 1} : t <= MaxClock} :
                     /\ now' = reading
                     /\ IF \E i \in 1..Len(callStack) : callStack[i].file = reading
                        THEN pc' = "exit1" /\ callStack' = <<>>
                        ELSE /\ pc' = pc
                             /\ callStack' =
                                   Append(rest,
                                          [file |-> reading,
                                           identifiers |-> referenceIdentifiers(
                                              NativeSchemaRegistry_get(referencedInterfaceName))])
          ELSE /\ callStack' = rest
               /\ UNCHANGED <<pc, usedNativeSchemas, now>>
    /\ UNCHANGED <<sortVars, convertedComponents, fieldVars, runVars, nativeSchemas, usedSchemas,
                   output>>

\* one round of the loop of lines 89-105 over an identifier that names a native
\* schema; the recursive call of line 102 reads the clock and creates its file, which
\* throws when a file of that name is still in the project
ScanIdentifier ==
    /\ pc = "analysing"
    /\ callStack # <<>>
    /\ callStack[Len(callStack)].identifiers # <<>>
    /\ LET frame == callStack[Len(callStack)]
           referencedInterfaceName == References_get(Head(frame.identifiers))
           rest == [callStack EXCEPT ![Len(callStack)].identifiers = Tail(frame.identifiers)]
       IN IF /\ NativeSchemaRegistry_has(referencedInterfaceName)
             /\ ~NativeSchemaRegistry_isUsed(usedNativeSchemas, referencedInterfaceName)
          THEN /\ usedNativeSchemas' =
                     NativeSchemaRegistry_markAsUsed(usedNativeSchemas, referencedInterfaceName)
               /\ \E reading \in {t \in {now, now + 1} : t <= MaxClock} :
                     /\ now' = reading
                     /\ IF \E i \in 1..Len(callStack) : callStack[i].file = reading
                        THEN pc' = "exit1" /\ callStack' = <<>>
                        ELSE /\ pc' = pc
                             /\ callStack' =
                                   Append(rest,
                                          [file |-> reading,
                                           identifiers |-> referenceIdentifiers(
                                              NativeSchemaRegistry_get(referencedInterfaceName))])
          ELSE /\ callStack' = rest
               /\ UNCHANGED <<pc, usedNativeSchemas, now>>
    /\ UNCHANGED <<sortVars, convertedComponents, fieldVars, runVars, nativeSchemas, usedSchemas,
                   output>>

\* line 108: the loop is over, the temporary file is removed and the call returns
FindIndirectDependenciesReturns ==
    /\ pc = "analysing"
    /\ callStack # <<>>
    /\ callStack[Len(callStack)].identifiers = <<>>
    /\ callStack' = SubSeq(callStack, 1, Len(callStack) - 1)
    /\ UNCHANGED <<pc, sortVars, convertedComponents, fieldVars, runVars, nativeVars, usedSchemas,
                   now, output>>

-----------------------------------------------------------------------------
(* outputFormatter: what the line scan reads off a line of generated text  *)

WhitespaceTokens == {"  ", "    "}

\* line.trim(), on tokens
RECURSIVE trimStart(_)
trimStart(line) ==
    IF line # <<>> /\ Head(line) \in WhitespaceTokens THEN trimStart(Tail(line)) ELSE line

RECURSIVE trimEndLine(_)
trimEndLine(line) ==
    IF line # <<>> /\ line[Len(line)] \in WhitespaceTokens
    THEN trimEndLine(SubSeq(line, 1, Len(line) - 1)) ELSE line

trimLine(line) == trimEndLine(trimStart(line))

\* the tokens of the generated text that hold "{" and "}", once each
OpenBraceTokens ==
    {" = z.object({", ": z.object({", ": z.array(z.object({", " & { content: z.infer<typeof ",
     "> }> = z.lazy(() => z.object({"}
CloseBraceTokens ==
    {"});", "}));", "  }).optional(),", "  })).optional().nullable(),",
     "> }> = z.lazy(() => z.object({"}

\* (line.match(/\{/g) || []).length - (line.match(/\}/g) || []).length
RECURSIVE braceDelta(_)
braceDelta(line) ==
    IF line = <<>> THEN 0
    ELSE (IF Head(line) \in OpenBraceTokens THEN 1 ELSE 0)
         - (IF Head(line) \in CloseBraceTokens THEN 1 ELSE 0)
         + braceDelta(Tail(line))

\* trimmedLine.startsWith("//")
startsWithComment(trimmedLine) ==
    trimmedLine # <<>> /\ trimmedLine[1] \in {"// Generated by storyblok-to-zod", "// "}

\* trimmedLine.startsWith("import ") && trimmedLine.includes("from")
isImportLine(trimmedLine) ==
    /\ trimmedLine # <<>>
    /\ trimmedLine[1] = "import "
    /\ \E i \in 1..Len(trimmedLine) : trimmedLine[i] = " from '"

\* mutant: only a line with the plain form `= z.object({` starts a schema
isSchemaStartPlainOnly(trimmedLine) ==
    /\ trimmedLine # <<>>
    /\ trimmedLine[1] \in {"export const ", "const "}
    /\ \E i \in 1..Len(trimmedLine) : trimmedLine[i] = " = z.object({"

\* the test of lines 30-31
isSchemaStart(trimmedLine) ==
    /\ trimmedLine # <<>>
    /\ trimmedLine[1] \in {"export const ", "const "}
    /\ \E i \in 1..Len(trimmedLine) :
          trimmedLine[i] \in {" = z.object({", "> }> = z.lazy(() => z.object({"}

\* trimmedLine.endsWith(";")
endsWithSemicolon(trimmedLine) ==
    trimmedLine # <<>> /\ trimmedLine[Len(trimmedLine)] \in {"});", "}));", "';"}

\* Set.prototype.add, on a sequence without repetition
SetAdd(set, x) == IF \E i \in 1..Len(set) : set[i] = x THEN set ELSE Append(set, x)

\* the body of the loop of analyzeGeneratedContent (lines 16-56): the state after
\* one more line
scanLine(st, line) ==
    LET trimmedLine == trimLine(line)
        complete(n) == n = 0 /\ endsWithSemicolon(trimmedLine)
    IN IF ~st.inSchema /\ (trimmedLine = <<>> \/ startsWithComment(trimmedLine))
       THEN st
       ELSE IF isImportLine(trimmedLine)
       THEN [st EXCEPT !.imports = SetAdd(st.imports, line)]
       ELSE IF isSchemaStart(trimmedLine)
       THEN IF complete(braceDelta(line))
            THEN [st EXCEPT !.schemas = Append(st.schemas, <<line>>),
                            !.currentSchema = EmptyText,
                            !.inSchema = FALSE,
                            !.braceCount = braceDelta(line)]
            ELSE [st EXCEPT !.currentSchema = <<line>>,
                            !.inSchema = TRUE,
                            !.braceCount = braceDelta(line)]
       ELSE IF st.inSchema
       THEN IF complete(st.braceCount + braceDelta(line))
            THEN [st EXCEPT !.schemas = Append(st.schemas, Append(st.currentSchema, line)),
                            !.currentSchema = EmptyText,
                            !.inSchema = FALSE,
                            !.braceCount = st.braceCount + braceDelta(line)]
            ELSE [st EXCEPT !.currentSchema = Append(st.currentSchema, line),
                            !.braceCount = st.braceCount + braceDelta(line)]
       ELSE st

RECURSIVE scanLines(_, _)
\* the loop of analyzeGeneratedContent (lines 15-57): the lines are scanned in their
\* order, the second half of them from the state that the first half leaves; the
\* test of that state has it computed before the second half is entered, as the loop
\* has its variables assigned before the next line is read
scanLines(lines, st) ==
    IF Len(lines) = 0 THEN st
    ELSE IF Len(lines) = 1 THEN scanLine(st, lines[1])
    ELSE LET half == Len(lines) \div 2
             first == scanLines(SubSeq(lines, 1, half), st)
         IN CASE first.inSchema \in BOOLEAN ->
                    scanLines(SubSeq(lines, half + 1, Len(lines)), first)

analyzeGeneratedContent(content) ==
    LET st == scanLines(content, [imports |-> <<>>, schemas |-> <<>>,
                                  currentSchema |-> EmptyText, inSchema |-> FALSE,
                                  braceCount |-> 0])
    IN [imports |-> st.imports,
        schemas |-> IF st.inSchema /\ st.currentSchema # EmptyText
                    THEN Append(st.schemas, st.currentSchema) ELSE st.schemas]

-----------------------------------------------------------------------------
(* deduplicateImports, formatWithTsMorph, formatFinalOutput                *)

\* import statements as the model writes them:
\*   import [type ]{ a, b } from 'm';   import * as n from 'm';   import d from 'm';
NamedImport(items, modulePath) ==
    <<"import ", "{ ">> \o JoinWith([i \in 1..Len(items) |-> <<items[i]>>], ", ")
    \o <<" }", " from '", modulePath, "';">>

DefaultImport(name, modulePath) == <<"import ", name, " from '", modulePath, "';">>

\* what the regular expression of lines 77-79 captures
matchImport(importStatement) ==
    LET typeKeyword == importStatement[2] = "type "
        body == IF typeKeyword THEN SubSeq(importStatement, 3, Len(importStatement))
                ELSE Tail(importStatement)
        from == CHOOSE i \in 1..Len(body) : body[i] = " from '"
        clause == SubSeq(body, 1, from - 1)
    IN [isType |-> typeKeyword,
        modulePath |-> body[from + 1],
        items |-> IF clause[1] = "{ "
                  THEN SelectSeq(clause, LAMBDA t : t \notin {"{ ", " }", ", "})
                  ELSE IF clause[1] = "* as " THEN <<"* as " \o clause[2]>>
                  ELSE <<clause[1]>>]

RECURSIVE collectImports(_, _)
\* the loop of lines 73-117: importMap in insertion order
collectImports(imports, importMap) ==
    IF imports = <<>> THEN importMap
    ELSE LET m == matchImport(Head(imports))
             known == \E i \in 1..Len(importMap) : importMap[i].modulePath = m.modulePath
             base == IF known THEN importMap
                     ELSE Append(importMap, [modulePath |-> m.modulePath, items |-> <<>>,
                                             isType |-> FALSE])
             add(items, new) ==
                 items \o SelectSeq(new, LAMBDA x : \A j \in 1..Len(items) : items[j] # x)
         IN collectImports(Tail(imports),
               [i \in 1..Len(base) |->
                   IF base[i].modulePath = m.modulePath
                   THEN [modulePath |-> m.modulePath,
                         items |-> add(base[i].items, m.items),
                         isType |-> base[i].isType \/ m.isType]
                   ELSE base[i]])

\* the order of Array.prototype.sort (by UTF-16 code units) on the import names of
\* the model
SortOrder == <<"* as z", "ZodType", "type ZodType", "z">>

\* /^[a-zA-Z_$][a-zA-Z0-9_$]*$/ on the import names of the model
isValidIdentifier(item) == item \in {"z", "ZodType"}

sortStrings(items) == SelectSeq(SortOrder, LAMBDA x : \E i \in 1..Len(items) : items[i] = x)

\* lines 122-152 for one module
renderImport(entry) ==
    LET importArray == sortStrings(entry.items)
        typePrefix == IF entry.isType THEN <<"type ">> ELSE <<>>
        namespaces == SelectSeq(importArray, LAMBDA imp : imp = "* as z")
    IN IF namespaces # <<>>
       THEN <<"import ">> \o typePrefix \o <<namespaces[1], " from '", entry.modulePath, "';">>
       ELSE IF ~entry.isType /\ Len(importArray) = 1 /\ isValidIdentifier(importArray[1])
       THEN DefaultImport(importArray[1], entry.modulePath)
       ELSE <<"import ">> \o typePrefix \o Tail(NamedImport(importArray, entry.modulePath))

\* the first UTF-16 code unit of the tokens in which two import statements of the
\* model can differ
CodeUnit(token) ==
    CASE token = " }" -> 32
      [] token = "* as z" -> 42
      [] token = ", " -> 44
      [] token = "ZodType" -> 90
      [] token = "astro/zod" -> 97
      [] token \in {"type ", "type ZodType"} -> 116
      [] token \in {"z", "zod"} -> 122
      [] token = "{ " -> 123
      [] OTHER -> 0

\* the default comparison of Array.prototype.sort on two rendered statements
StatementLess(a, b) ==
    \E i \in 1..Len(a) :
        /\ i <= Len(b)
        /\ \A j \in 1..(i - 1) : a[j] = b[j]
        /\ a[i] # b[i]
        /\ CodeUnit(a[i]) < CodeUnit(b[i])

RECURSIVE sortStatements(_)
\* deduplicatedImports.sort() (line 154)
sortStatements(statements) ==
    IF statements = <<>> THEN <<>>
    ELSE LET least == CHOOSE i \in 1..Len(statements) :
                         \A j \in 1..Len(statements) : ~StatementLess(statements[j], statements[i])
         IN <<statements[least]>>
            \o sortStatements([k \in 1..(Len(statements) - 1) |->
                                  IF k < least THEN statements[k] ELSE statements[k + 1]])

\* mutant: one statement per import statement of the input, nothing merged
deduplicateImportsNoMerge(imports) ==
    sortStatements([i \in 1..Len(imports) |-> renderImport(collectImports(<<imports[i]>>, <<>>)[1])])

deduplicateImports(imports) ==
    LET importMap == collectImports(imports, <<>>)
    IN sortStatements([i \in 1..Len(importMap) |-> renderImport(importMap[i])])

\* formatText leaves the tokens of the declarations as they are (they are indented by
\* two spaces already) and ends the file with a line break
formatWithTsMorph(content) ==
    IF content[Len(content)] = <<>> THEN content ELSE Append(content, <<>>)

RECURSIVE trimEnd(_)
\* String.prototype.trimEnd on a text
trimEnd(text) ==
    LET last == trimEndLine(text[Len(text)])
        front == SubSeq(text, 1, Len(text) - 1)
    IN IF last = <<>> /\ Len(text) > 1 THEN trimEnd(front) ELSE front \o <<last>>

RECURSIVE trimStartText(_)
trimStartText(text) ==
    LET first == trimStart(text[1])
    IN IF first = <<>> /\ Len(text) > 1 THEN trimStartText(Tail(text))
       ELSE <<first>> \o Tail(text)

\* String.prototype.trim on a text
trimText(text) == trimEnd(trimStartText(text))

RECURSIVE joinBlank(_)
\* contentParts.join("\n\n")
joinBlank(parts) ==
    IF Len(parts) = 1 THEN parts[1]
    ELSE parts[1] \o << <<>> >> \o joinBlank(Tail(parts))

\* the header of the generated file: a comment
FILE_HEADER == << <<"// ">> >>

\* mutant: the component schemas are put before the native schemas
formatFinalOutputComponentsFirst(fileHeader, nativeText, componentText) ==
    LET allContent == fileHeader \o componentText \o nativeText
        analysed == analyzeGeneratedContent(allContent)
        extractedImports == SetAdd(analysed.imports, NamedImport(<<"z">>, "astro/zod"))
        finalImports == deduplicateImports(extractedImports)
        trimmed == [i \in 1..Len(analysed.schemas) |-> trimText(analysed.schemas[i])]
        organizedSchemas == SelectSeq(trimmed, LAMBDA schema : schema # EmptyText)
        contentParts == << << <<"// Generated by storyblok-to-zod">> >> >>
                        \o [i \in 1..Len(finalImports) |-> <<finalImports[i]>>]
                        \o organizedSchemas
    IN formatWithTsMorph(joinBlank(contentParts))

formatFinalOutput(fileHeader, nativeText, componentText) ==
    LET allContent == fileHeader \o nativeText \o componentText
        analysed == analyzeGeneratedContent(allContent)
        extractedImports == SetAdd(analysed.imports, NamedImport(<<"z">>, "astro/zod"))
        finalImports == deduplicateImports(extractedImports)
        trimmed == [i \in 1..Len(analysed.schemas) |-> trimText(analysed.schemas[i])]
        organizedSchemas == SelectSeq(trimmed, LAMBDA schema : schema # EmptyText)
        contentParts == << << <<"// Generated by storyblok-to-zod">> >> >>
                        \o [i \in 1..Len(finalImports) |-> <<finalImports[i]>>]
                        \o organizedSchemas
    IN formatWithTsMorph(joinBlank(contentParts))

-----------------------------------------------------------------------------
(* generateFinalOutput, after its call of the analysis has returned        *)

\* mutant: the text is printed as it is written to the file
GenerateFinalOutputUntrimmed ==
    /\ pc = "analysing"
    /\ callStack = <<>>
    /\ usedSchemas = <<>>
    /\ LET allNativeSchemas ==
               JoinLines([i \in 1..Len(usedNativeSchemas) |-> usedNativeSchemas[i].schemaContent])
           formattedContent ==
               formatFinalOutput(FILE_HEADER, allNativeSchemas, allComponentContent)
       IN \/ output' = [kind |-> "file", text |-> formattedContent]
          \/ output' = [kind |-> "stdout", text |-> formattedContent]
    /\ pc' = "done"
    /\ UNCHANGED <<sortVars, convertedComponents, fieldVars, runVars, nativeVars, analysisVars>>

\* lines 19-47: the used native schemas and the component schemas are formatted and
\* written to the output file, or printed without the final line break
GenerateFinalOutput ==
    /\ pc = "analysing"
    /\ callStack = <<>>
    /\ usedSchemas = <<>>
    /\ LET allNativeSchemas ==
               JoinLines([i \in 1..Len(usedNativeSchemas) |-> usedNativeSchemas[i].schemaContent])
           formattedContent ==
               formatFinalOutput(FILE_HEADER, allNativeSchemas, allComponentContent)
       IN \/ output' = [kind |-> "file", text |-> formattedContent]
          \/ output' = [kind |-> "stdout", text |-> trimEnd(formattedContent)]
    /\ pc' = "done"
    /\ UNCHANGED <<sortVars, convertedComponents, fieldVars, runVars, nativeVars, analysisVars>>

Next ==
    \/ NextConvert
    \/ AnalyzeDirect
    \/ FindIndirectDependencies
    \/ ScanIdentifier
    \/ FindIndirectDependenciesReturns
    \/ GenerateFinalOutput

-----------------------------------------------------------------------------
(* SpecUsage: a run over one component and every bounded registry of       *)
(* native schemas                                                          *)

\* the interfaces of the type definitions, and the field type that references each
NativeOrder == <<"StoryblokAsset", "StoryblokMultilink", "StoryblokRichtext">>
NativeFieldType == <<"asset", "multilink", "richtext">>

\* most interface-typed members of one interface
MaxRefs == 1

\* the registry that processStoryblokInterfaces leaves: interfaces in file order, the
\* schema of each with members of the listed interface types, or empty
RECURSIVE registerInterfaces(_, _, _)
registerInterfaces(order, bodies, registry) ==
    IF order = <<>> THEN registry
    ELSE registerInterfaces(Tail(order), Tail(bodies),
            NativeSchemaRegistry_set(registry, Head(order),
                IF Head(bodies).empty THEN EmptyText
                ELSE nativeSchemaContent(Head(order), Head(bodies).refs)))

\* the interface types of the members of one interface, in member order
MemberTypes ==
    {refs \in SeqsUpTo(Range(NativeOrder), MaxRefs) :
        \A i, j \in 1..Len(refs) : i # j => refs[i] # refs[j]}

\* a document with a text field and one field of each of the listed types
UsageDocument(types) ==
    JsonDocument(SchemaObject(
        <<[name |-> "headline", value |-> TextField]>>
        \o [i \in 1..Len(types) |->
               [name |-> PropNames[i], value |-> FieldObject(JsonString(types[i]), Undefined, Undefined)]]))

InitUsage ==
    /\ pc = "discovered"
    /\ componentDependencies = None
    /\ sortResult = None
    /\ convertedComponents = <<>>
    /\ value = None
    /\ zodType = None
    /\ \/ files = [names |-> <<KeyOrder[1]>>,
                    content |-> KeyOrder[1] :> [status |-> "unreadable", data |-> Undefined]]
       \/ \E k \in 0..Len(NativeFieldType) :
             files = [names |-> <<KeyOrder[1]>>,
                      content |-> KeyOrder[1] :>
                         [status |-> "ok",
                          data |-> UsageDocument(SubSeq(NativeFieldType, 1, k))]]
    /\ idx = 0
    /\ lastConversion = None
    /\ \E n \in 0..Len(NativeOrder) :
         \E order \in [1..n -> Range(NativeOrder)] :
            /\ \A i, j \in 1..n : i # j => order[i] # order[j]
            /\ \E bodies \in [1..n -> [empty : {FALSE}, refs : MemberTypes]
                                       \cup {[empty |-> TRUE, refs |-> <<>>]}] :
                  nativeSchemas = registerInterfaces(order, bodies, <<>>)
    /\ usedNativeSchemas = <<>>
    /\ AnalysisIdle

SpecUsage == InitUsage /\ [][Next]_vars

-----------------------------------------------------------------------------
(* SpecRun: main from the discovered files to the end of generateFinalOutput, *)
(* over the directories of unreadable files and documents with bloks fields   *)

RunDocKinds == {"unreadable", "doc", "doc2"}

InitRun == InitDirectory(RunDocKinds)

SpecRun == InitRun /\ [][Next]_vars

-----------------------------------------------------------------------------
(* SpecImports: a run whose one native schema text starts with import      *)
(* statements                                                              *)

\* most import statements in front of the native schema
MaxImports == 2

ModulePaths == {"astro/zod", "zod"}

\* the import statements of the model for one module path: named, named with two
\* names, namespace, default, type-only, and named with an inline type modifier
ImportsFrom(modulePath) ==
    {NamedImport(<<"z">>, modulePath),
     NamedImport(<<"z", "ZodType">>, modulePath),
     <<"import ", "* as ", "z", " from '", modulePath, "';">>,
     DefaultImport("z", modulePath),
     <<"import ", "type ">> \o Tail(NamedImport(<<"ZodType">>, modulePath)),
     NamedImport(<<"type ZodType">>, modulePath)}

ImportStatements == UNION {ImportsFrom(m) : m \in ModulePaths}

InitImports ==
    /\ pc = "discovered"
    /\ componentDependencies = None
    /\ sortResult = None
    /\ convertedComponents = <<>>
    /\ value = None
    /\ zodType = None
    /\ files = [names |-> <<KeyOrder[1]>>,
                content |-> KeyOrder[1] :>
                   [status |-> "ok", data |-> UsageDocument(SubSeq(NativeFieldType, 1, 1))]]
    /\ idx = 0
    /\ lastConversion = None
    /\ \E imports \in SeqsUpTo(ImportStatements, MaxImports) :
          nativeSchemas =
             NativeSchemaRegistry_set(<<>>, NativeOrder[1],
                                      imports \o nativeSchemaContent(NativeOrder[1], <<>>))
    /\ usedNativeSchemas = <<>>
    /\ AnalysisIdle

SpecImports == InitImports /\ [][Next]_vars

-----------------------------------------------------------------------------
(* SpecSymbols: a run over directories of components with names of every    *)
(* kebab-case form                                                         *)

\* valid kebab-case names: one word, two words, a word with a digit, a word and a
\* number, and the kebab-case form of an interface name
ComponentNames == {"card", "card-story", "hero2", "hero-2", "storyblok-asset"}

\* most component files of the directory
MaxComponents == 2

InitSymbols ==
    /\ pc = "discovered"
    /\ componentDependencies = None
    /\ sortResult = None
    /\ convertedComponents = <<>>
    /\ value = None
    /\ zodType = None
    /\ \E names \in SeqsUpTo(ComponentNames, MaxComponents), k \in 0..1 :
          /\ \A i, j \in 1..Len(names) : i # j => names[i] # names[j]
          /\ files = [names |-> names,
                      content |-> [n \in Range(names) |->
                                      [status |-> "ok",
                                       data |-> UsageDocument(SubSeq(NativeFieldType, 1, k))]]]
    /\ idx = 0
    /\ lastConversion = None
    /\ \E hasISbStoryData \in BOOLEAN :
          nativeSchemas =
             registerInterfaces(SubSeq(NativeOrder, 1, 2),
                                <<[empty |-> FALSE, refs |-> <<NativeOrder[2]>>],
                                  [empty |-> FALSE, refs |-> <<>>]>>,
                                StoryRegistry(hasISbStoryData))
    /\ usedNativeSchemas = <<>>
    /\ AnalysisIdle

SpecSymbols == InitSymbols /\ [][Next]_vars

-----------------------------------------------------------------------------
(* SpecRegistry: the calls of NativeSchemaRegistry in every order          *)

\* NativeSchemaRegistry.getUsageStats
NativeSchemaRegistry_getUsageStats ==
    LET total == Len(nativeSchemas)
        used == Len(usedNativeSchemas)
    IN [total |-> total, used |-> used, unused |-> total - used]

\* the schema texts a caller passes for an interface: the empty text and two declarations
SchemaTexts(interfaceName) ==
    {EmptyText, nativeSchemaContent(interfaceName, <<>>),
     nativeSchemaContent(interfaceName, <<NativeOrder[1]>>)}

InitRegistry ==
    /\ pc = "registry"
    /\ componentDependencies = None
    /\ sortResult = None
    /\ convertedComponents = <<>>
    /\ value = None
    /\ zodType = None
    /\ RunIdle /\ NativeIdle /\ AnalysisIdle

\* NativeSchemaRegistry.set
RegistrySet ==
    /\ pc = "registry"
    /\ \E interfaceName \in Range(NativeOrder) :
          \E schemaContent \in SchemaTexts(interfaceName) :
             nativeSchemas' = NativeSchemaRegistry_set(nativeSchemas, interfaceName, schemaContent)
    /\ UNCHANGED <<pc, sortVars, convertedComponents, fieldVars, runVars, usedNativeSchemas,
                   analysisVars, output>>

\* NativeSchemaRegistry.markAsUsed
RegistryMarkAsUsed ==
    /\ pc = "registry"
    /\ \E interfaceName \in Range(NativeOrder) :
          usedNativeSchemas' = NativeSchemaRegistry_markAsUsed(usedNativeSchemas, interfaceName)
    /\ UNCHANGED <<pc, sortVars, convertedComponents, fieldVars, runVars, nativeSchemas,
                   analysisVars, output>>

\* NativeSchemaRegistry.clear
RegistryClear ==
    /\ pc = "registry"
    /\ nativeSchemas' = <<>>
    /\ usedNativeSchemas' = <<>>
    /\ UNCHANGED <<pc, sortVars, convertedComponents, fieldVars, runVars, analysisVars, output>>

NextRegistry == RegistrySet \/ RegistryMarkAsUsed \/ RegistryClear

SpecRegistry == InitRegistry /\ [][NextRegistry]_vars

-----------------------------------------------------------------------------
(* The dependency graph among keys, defined without the sort               *)

Keys(cd) == Range(cd.keys)

\* A -> B: B occurs in A's dependency list and both are keys
Edge(cd, a, b) == a \in Keys(cd) /\ b \in Keys(cd) /\ b \in Range(cd.deps[a])

RECURSIVE ReachIn(_, _, _)
\* keys reached from the set `from` through one or more edges, in at most n rounds
ReachIn(cd, from, n) ==
    LET next == {b \in Keys(cd) : \E a \in from : Edge(cd, a, b)}
    IN IF n = 0 THEN {} ELSE next \cup ReachIn(cd, next, n - 1)

Reach(cd, a) == ReachIn(cd, {a}, Cardinality(Keys(cd)))

HasCycle(cd) == \E k \in Keys(cd) : k \in Reach(cd, k)

\* Array.prototype.indexOf, 1-based; 0 when absent
IndexOf(s, x) ==
    IF x \in Range(s) THEN CHOOSE i \in 1..Len(s) : s[i] = x /\ \A j \in 1..(i - 1) : s[j] # x
    ELSE 0

-----------------------------------------------------------------------------
\* C1: for a mapping with no cycle among its keys the sort returns an order in
\* which, for every pair of distinct keys A, B with B in A's dependency list,
\* B stands at a strictly smaller index than A.
C1_DependenciesFirst ==
    (pc = "sorted" /\ ~HasCycle(componentDependencies)) =>
        /\ sortResult.kind = "order"
        /\ \A a, b \in Keys(componentDependencies) :
              (a # b /\ Edge(componentDependencies, a, b)) =>
                 /\ IndexOf(sortResult.sortedComponents, b) >= 1
                 /\ IndexOf(sortResult.sortedComponents, b)
                      < IndexOf(sortResult.sortedComponents, a)

\* an acyclic mapping sorted, in which a key listed first depends on a chain of two later keys
C1_Witness ==
    /\ pc = "sorted"
    /\ ~HasCycle(componentDependencies)
    /\ sortResult.kind = "order"
    /\ Len(componentDependencies.keys) = 3
    /\ Edge(componentDependencies, KeyOrder[1], KeyOrder[2])
    /\ Edge(componentDependencies, KeyOrder[2], KeyOrder[3])

\* C2: for a mapping with a cycle among its keys (of any length, a self-dependency
\* included) the sort throws the cyclic-dependency ValidationError and returns no
\* order, not even a partial one.
C2_CycleRaises ==
    (pc = "sorted" /\ HasCycle(componentDependencies)) =>
        /\ sortResult.kind = "ValidationError"
        /\ "sortedComponents" \notin DOMAIN sortResult

\* a cycle of length three without any self-dependency was sorted and the error thrown
C2_Witness ==
    /\ pc = "sorted"
    /\ sortResult.kind = "ValidationError"
    /\ Edge(componentDependencies, KeyOrder[1], KeyOrder[2])
    /\ Edge(componentDependencies, KeyOrder[2], KeyOrder[3])
    /\ Edge(componentDependencies, KeyOrder[3], KeyOrder[1])
    /\ \A k \in Keys(componentDependencies) : ~Edge(componentDependencies, k, k)

-----------------------------------------------------------------------------
(* The Field-Type Mapper's table, written out                              *)

ExpectedSymbol(name) ==
    CASE name = "card" -> "cardSchema"
      [] name = "button" -> "buttonSchema"
      [] name = "text-block" -> "textBlockSchema"
      [] name = "ghost" -> "ghostSchema"

\* the names of a whitelist: its non-empty strings, in whitelist order
WhitelistNames(whitelist) ==
    LET names == SelectSeq(whitelist, LAMBDA e : e.t = "string" /\ e.v # "")
    IN [i \in 1..Len(names) |-> names[i].v]

RECURSIVE CommaList(_)
CommaList(symbols) ==
    IF symbols = <<>> THEN ""
    ELSE IF Len(symbols) = 1 THEN symbols[1]
    ELSE symbols[1] \o ", " \o CommaList(Tail(symbols))

InRegistry(name) == name \in {convertedComponents[i].name : i \in 1..Len(convertedComponents)}

BloksCalled == pc \in {"bloks", "mapped"} /\ TypeIs(value.type, "bloks")

\* C4: a whitelist in which at least one name is not in the registry gives exactly
\* z.any(), wherever the unresolved name stands and however many names are resolved,
\* and the call returns.
C4_UnresolvedGivesAny ==
    (/\ BloksCalled
     /\ IsArray(value.component_whitelist)
     /\ \E n \in Range(WhitelistNames(value.component_whitelist.v)) : ~InRegistry(n)) =>
        /\ zodType.kind = "returned"
        /\ Concat(zodType.tokens) = "z.any()"

\* handleBloksType returned for a whitelist whose unresolved name stands between two
\* resolved ones
C4_Witness ==
    /\ pc = "bloks"
    /\ IsArray(value.component_whitelist)
    /\ value.component_whitelist.v = <<JsonString("card"), JsonString("ghost"), JsonString("button")>>
    /\ InRegistry("card") /\ InRegistry("button") /\ ~InRegistry("ghost")
    /\ Concat(zodType.tokens) = "z.any()"

\* C5: with every name of the whitelist in the registry, one name gives that
\* component's schema symbol alone, two or more names give z.union([...]) of the
\* symbols of all names in whitelist order; an absent or empty whitelist gives z.any().
C5_ResolvedGivesReferenceOrUnion ==
    BloksCalled =>
        /\ (~IsArray(value.component_whitelist) \/ Len(value.component_whitelist.v) = 0)
              => Concat(zodType.tokens) = "z.any()"
        /\ (IsArray(value.component_whitelist) /\ Len(value.component_whitelist.v) > 0) =>
              LET names == WhitelistNames(value.component_whitelist.v)
                  symbols == [i \in 1..Len(names) |-> ExpectedSymbol(names[i])]
              IN (Len(names) >= 1 /\ \A n \in Range(names) : InRegistry(n)) =>
                    /\ Len(names) = 1 => Concat(zodType.tokens) = symbols[1]
                    /\ Len(names) >= 2 =>
                          Concat(zodType.tokens) = "z.union([" \o CommaList(symbols) \o "])"

\* a whitelist of two resolved names, the kebab-case one first, gave the union in that order
C5_Witness ==
    /\ pc = "bloks"
    /\ IsArray(value.component_whitelist)
    /\ value.component_whitelist.v = <<JsonString("text-block"), JsonString("card")>>
    /\ InRegistry("text-block") /\ InRegistry("card")
    /\ Concat(zodType.tokens) = "z.union([textBlockSchema, cardSchema])"

\* the table of the mapper for the tags it names, the missing type, and the fallback
TableExpression(type) ==
    IF ~Truthy(type) THEN "z.any()"
    ELSE IF type.t # "string" THEN "z.any() /* Unknown type: " \o type.v \o " */"
    ELSE CASE type.v \in {"text", "textarea", "markdown"} -> "z.string()"
           [] type.v = "number" -> "z.number()"
           [] type.v = "boolean" -> "z.boolean()"
           [] type.v = "datetime" -> "z.string().datetime()"
           [] type.v = "option" -> "z.union([z.number(), z.string()])"
           [] type.v = "options" -> "z.array(z.union([z.number(), z.string()]))"
           [] type.v = "asset" -> "storyblokAssetSchema"
           [] type.v = "multilink" -> "storyblokMultilinkSchema"
           [] type.v = "richtext" -> "storyblokRichtextSchema"
           [] OTHER -> "z.any() /* Unknown type: " \o type.v \o " */"

-----------------------------------------------------------------------------
(* The documents of the directory, read without the converter              *)

\* the properties of the schema of component n, in document order
DocFields(n) ==
    LET file == files.content[n]
    IN IF file.status = "ok" /\ file.data.t = "object" /\ file.data.schema.t = "object"
       THEN file.data.schema.fields ELSE <<>>

\* a property that the converter maps: a field object with a type that is not skipped
Mapped(f) ==
    /\ f.value.t = "object"
    /\ f.value.type.t = "string" /\ f.value.type.v \notin {"", "tab", "section"}

RegistryText(name) ==
    convertedComponents[CHOOSE i \in 1..Len(convertedComponents) :
                            convertedComponents[i].name = name].zodSchema

\* the member lines of property propName in a component's declaration
MemberLines(text, propName) ==
    SelectSeq(text, LAMBDA l : Len(l) >= 3 /\ l[1] = "  " /\ l[2] = propName /\ l[3] = ": ")

HasOptionalSuffix(l) == l[Len(l)] = "," /\ l[Len(l) - 1] = ".optional()"

IsBareMember(l) == l[Len(l)] = "," /\ l[Len(l) - 1] # ".optional()"

Converting == pc \in {"converting", "converted", "exit1"} /\ sortResult.kind = "order"

\* C7 as stated: in a converted component's declaration the member of a mapped
\* field carries .optional() exactly when the descriptor's required is not the boolean
\* true (absent, false, or ANY other value), and is bare only when required is true.
C7_Original ==
    Converting =>
        \A n \in Range(files.names) : InRegistry(n) =>
            \A i \in 1..Len(DocFields(n)) :
                LET f == DocFields(n)[i]
                    ls == MemberLines(RegistryText(n), f.name)
                IN Mapped(f) =>
                      /\ Len(ls) = 1
                      /\ HasOptionalSuffix(ls[1]) <=> f.value.required # JsonBoolean("true")
                      /\ IsBareMember(ls[1]) <=> f.value.required = JsonBoolean("true")

\* C7 amended: the member carries .optional() exactly when required is falsy (absent,
\* false, null, 0 or the empty string); it is bare when required is true or any
\* other truthy value.
C7_OptionalWhenFalsy ==
    Converting =>
        \A n \in Range(files.names) : InRegistry(n) =>
            \A i \in 1..Len(DocFields(n)) :
                LET f == DocFields(n)[i]
                    ls == MemberLines(RegistryText(n), f.name)
                IN Mapped(f) =>
                      /\ Len(ls) = 1
                      /\ HasOptionalSuffix(ls[1]) <=> ~Truthy(f.value.required)
                      /\ IsBareMember(ls[1]) <=> Truthy(f.value.required)

\* a component converted whose first field has required true and is bare, and whose
\* second field has required false and is optional
C7_Witness ==
    /\ pc = "converted"
    /\ InRegistry(KeyOrder[1])
    /\ Len(DocFields(KeyOrder[1])) = 2
    /\ DocFields(KeyOrder[1])[1].value = FieldObject(JsonString("asset"), JsonBoolean("true"), Undefined)
    /\ DocFields(KeyOrder[1])[2].value = FieldObject(JsonString("text"), JsonBoolean("false"), Undefined)
    /\ RegistryText(KeyOrder[1])[2] = <<"  ", "title", ": ", "storyblokAssetSchema", ",">>
    /\ RegistryText(KeyOrder[1])[3] = <<"  ", "body", ": ", "z.string()", ".optional()", ",">>

-----------------------------------------------------------------------------
\* the names that the bloks whitelists of component n hold
BloksWhitelists(n) ==
    LET bloks == SelectSeq(DocFields(n),
                    LAMBDA f : /\ f.value.t = "object"
                               /\ TypeIs(f.value.type, "bloks")
                               /\ IsArray(f.value.component_whitelist))
    IN [i \in 1..Len(bloks) |->
           [name |-> bloks[i].name, names |-> WhitelistNames(bloks[i].value.component_whitelist.v)]]

\* the conversion of component n succeeds: its name is kebab-case, its file is read
\* and parsed, and its schema has a valid field
ConversionSucceeds(n) ==
    /\ n \in Range(files.names)
    /\ files.content[n].status = "ok"
    /\ \E i \in 1..Len(DocFields(n)) :
          LET v == DocFields(n)[i].value
          IN v.t = "object" /\ v.type.t = "string" /\ v.type.v # ""

ExpectedReference(names) ==
    IF Len(names) = 1 THEN ExpectedSymbol(names[1])
    ELSE "z.union([" \o CommaList([i \in 1..Len(names) |-> ExpectedSymbol(names[i])]) \o "])"

\* C3: in a run whose sort succeeded, when component A is about to be converted every
\* component B of A's bloks whitelists that is a key of the graph and whose conversion
\* succeeds is already in the registry; and a bloks field of a converted A whose
\* whitelist names only such components is a reference or a union, never z.any().
C3_DependenciesConvertedFirst ==
    /\ (pc = "converting" /\ idx <= Len(sortResult.sortedComponents)) =>
          LET a == sortResult.sortedComponents[idx]
          IN \A i \in 1..Len(BloksWhitelists(a)) :
                \A b \in Range(BloksWhitelists(a)[i].names) :
                    (b \in Keys(componentDependencies) /\ ConversionSucceeds(b)) => InRegistry(b)
    /\ Converting =>
          \A a \in Range(files.names) : InRegistry(a) =>
             \A i \in 1..Len(BloksWhitelists(a)) :
                LET w == BloksWhitelists(a)[i]
                    ls == MemberLines(RegistryText(a), w.name)
                IN (/\ Len(w.names) >= 1
                    /\ \A b \in Range(w.names) :
                          b \in Keys(componentDependencies) /\ ConversionSucceeds(b)) =>
                       /\ Len(ls) = 1
                       /\ Concat(ls[1]) =
                             "  " \o w.name \o ": " \o ExpectedReference(w.names) \o ".optional(),"

\* the first file of the directory is about to be converted last, after the two
\* later files its whitelist names, both of them in the registry
C3_Witness ==
    /\ pc = "converting"
    /\ idx = 3
    /\ Len(sortResult.sortedComponents) = 3
    /\ sortResult.sortedComponents[3] = KeyOrder[1]
    /\ Len(BloksWhitelists(KeyOrder[1])) = 1
    /\ BloksWhitelists(KeyOrder[1])[1].names = <<KeyOrder[3], KeyOrder[2]>>
    /\ InRegistry(KeyOrder[2]) /\ InRegistry(KeyOrder[3])

-----------------------------------------------------------------------------
\* a round of the loop of convertComponents in which the conversion failed
ConversionFailed ==
    /\ pc = "converting"
    /\ idx <= Len(sortResult.sortedComponents)
    /\ lastConversion' # lastConversion
    /\ lastConversion'.kind # "ok"

Skipped ==
    /\ convertedComponents' = convertedComponents
    /\ \A i \in 1..Len(convertedComponents') :
          convertedComponents'[i].name # lastConversion'.componentName
    /\ idx' = idx + 1
    /\ pc' = "converting"

-----------------------------------------------------------------------------
(* The reference graph of the native schemas, read off the texts           *)

NativeNames == {nativeSchemas[i].name : i \in 1..Len(nativeSchemas)}

UsedNames == {usedNativeSchemas[i].name : i \in 1..Len(usedNativeSchemas)}

\* the schema symbol of an interface of the type definitions
SymbolOf(interfaceName) ==
    CASE interfaceName = "StoryblokAsset" -> "storyblokAssetSchema"
      [] interfaceName = "StoryblokMultilink" -> "storyblokMultilinkSchema"
      [] interfaceName = "StoryblokRichtext" -> "storyblokRichtextSchema"
      [] interfaceName = "ISbStoryData" -> "iSbStoryDataSchema"

TokensOf(text) == UNION {Range(text[i]) : i \in 1..Len(text)}

BodyOf(interfaceName) ==
    nativeSchemas[CHOOSE i \in 1..Len(nativeSchemas) :
                     nativeSchemas[i].name = interfaceName].schemaContent

\* the native schemas whose symbol stands in a component-schema text
DirectlyReferenced ==
    {n \in NativeNames :
        \E i \in 1..Len(convertedComponents) :
            SymbolOf(n) \in TokensOf(convertedComponents[i].zodSchema)}

RECURSIVE ReferenceClosure(_, _)
\* `from`, and what the bodies of its members mention, through at most n references
ReferenceClosure(from, n) ==
    IF n = 0 THEN from
    ELSE ReferenceClosure(
            from \cup {m \in NativeNames : \E u \in from : SymbolOf(m) \in TokensOf(BodyOf(u))},
            n - 1)

ReachableNatives == ReferenceClosure(DirectlyReferenced, Cardinality(NativeNames))

\* the symbols that a text declares
DeclaredSymbols(text) ==
    {text[i][2] : i \in {j \in 1..Len(text) : Len(text[j]) >= 2 /\ text[j][1] = "export const "}}

\* C8: a native schema whose symbol is in no component-schema text and that is not
\* reached through the bodies of used native schemas is not in the used set, during
\* and after the usage analysis, and the final output does not declare its symbol
\* nor mention it.
C8_UnreferencedExcluded ==
    /\ pc \in {"analysing", "done", "exit1"} =>
          \A n \in NativeNames \ ReachableNatives : n \notin UsedNames
    /\ pc = "done" =>
          \A n \in NativeNames \ ReachableNatives :
             /\ SymbolOf(n) \notin DeclaredSymbols(output.text)
             /\ SymbolOf(n) \notin TokensOf(output.text)

\* the output was written for a registry of three schemas with text, of which the
\* component references the last registered, that one's body the first, and nothing
\* the second: the output declares the two and not the third
C8_Witness ==
    /\ pc = "done"
    /\ Len(nativeSchemas) = 3
    /\ \A i \in 1..3 : nativeSchemas[i].schemaContent # EmptyText
    /\ DirectlyReferenced = {nativeSchemas[3].name}
    /\ ReachableNatives = {nativeSchemas[3].name, nativeSchemas[1].name}
    /\ UsedNames = ReachableNatives
    /\ SymbolOf(nativeSchemas[1].name) \in DeclaredSymbols(output.text)
    /\ SymbolOf(nativeSchemas[3].name) \in DeclaredSymbols(output.text)
    /\ SymbolOf(nativeSchemas[2].name) \notin DeclaredSymbols(output.text)

\* C9: after the usage analysis every registered native schema that is reachable from
\* the component-schema text through a chain of symbol references of any length is
\* marked used, whatever the order of the registry.
C9_ReachableMarkedUsed ==
    pc = "done" => \A n \in ReachableNatives : n \in UsedNames

-----------------------------------------------------------------------------
(* C11: files that buildDependencyGraph skips                              *)

\* the file of component n cannot be read or parsed, or its document has no schema
FileSkipped(n) ==
    \/ files.content[n].status # "ok"
    \/ files.content[n].data.schema = Undefined

GraphBuilt == pc # "discovered" /\ componentDependencies # None

\* C11: once buildDependencyGraph has run, a component whose file is unreadable,
\* unparseable or without schema is no key of the mapping and is not in the returned
\* order; every other listed component is a key and is in the returned order; the
\* call raises only the cycle error of the components that got a key
C11_SkippedFilesLeftOut ==
    GraphBuilt =>
       /\ \A i \in 1..Len(files.names) :
             LET n == files.names[i]
             IN /\ FileSkipped(n) <=> n \notin Keys(componentDependencies)
                /\ sortResult.kind = "order" =>
                      (FileSkipped(n) <=> n \notin Range(sortResult.sortedComponents))
       /\ sortResult.kind = "order" \/ HasCycle(componentDependencies)

\* a skipped file is whitelisted by a component that is still ordered, next to another
\* skipped file
C11_Witness ==
    /\ GraphBuilt
    /\ sortResult.kind = "order"
    /\ files.content[KeyOrder[1]].status = "unreadable"
    /\ files.content[KeyOrder[3]].status = "ok"
    /\ files.content[KeyOrder[3]].data.schema = Undefined
    /\ ~FileSkipped(KeyOrder[2])
    /\ Keys(componentDependencies) = {KeyOrder[2]}
    /\ KeyOrder[1] \in Range(componentDependencies.deps[KeyOrder[2]])
    /\ sortResult.sortedComponents = <<KeyOrder[2]>>

-----------------------------------------------------------------------------
(* C12: a cycle ends the run before the conversion                         *)

-----------------------------------------------------------------------------
(* C13: the order of the declarations in the final output                  *)

\* the symbols a text declares, in the order of their declarations
DeclarationsOf(text) ==
    LET lines == SelectSeq(text, LAMBDA l : Len(l) >= 2 /\ l[1] = "export const ")
    IN [i \in 1..Len(lines) |-> lines[i][2]]

ExpectedStorySymbol(name) ==
    CASE name = "card" -> "cardStorySchema"
      [] name = "button" -> "buttonStorySchema"
      [] name = "text-block" -> "textBlockStorySchema"

\* the symbols of the used native schemas
UsedNativeSymbols == {SymbolOf(n) : n \in UsedNames}

RECURSIVE ExpectedComponentDeclarations(_)
\* the declarations of the components of `order` whose conversion succeeds, each
\* followed by its story wrapper when the story interface is registered
ExpectedComponentDeclarations(order) ==
    IF order = <<>> THEN <<>>
    ELSE (IF ConversionSucceeds(Head(order))
          THEN <<ExpectedSymbol(Head(order))>>
               \o (IF "ISbStoryData" \in NativeNames
                    THEN <<ExpectedStorySymbol(Head(order))>> ELSE <<>>)
          ELSE <<>>)
         \o ExpectedComponentDeclarations(Tail(order))

\* component a whitelists component b in one of its bloks fields
Whitelists(a, b) ==
    \E i \in 1..Len(BloksWhitelists(a)) : b \in Range(BloksWhitelists(a)[i].names)

\* C13: in the final output every declaration of a used native schema stands before
\* every declaration of a component; the component declarations are those of the
\* converted components in the order of the topological sort (each followed by its
\* story wrapper); so the declaration of a converted component stands before the
\* declaration of every converted component that whitelists it.
C13_NativeThenConversionOrder ==
    pc = "done" =>
       LET decl == DeclarationsOf(output.text)
       IN /\ \A i, j \in 1..Len(decl) :
                (decl[i] \in UsedNativeSymbols /\ decl[j] \notin UsedNativeSymbols) => i < j
          /\ UsedNativeSymbols \subseteq Range(decl)
          /\ SelectSeq(decl, LAMBDA d : d \notin UsedNativeSymbols)
                = ExpectedComponentDeclarations(sortResult.sortedComponents)
          /\ \A a, b \in Range(files.names) :
                (a # b /\ ConversionSucceeds(a) /\ ConversionSucceeds(b) /\ Whitelists(a, b))
                   => /\ IndexOf(decl, ExpectedSymbol(b)) > 0
                      /\ IndexOf(decl, ExpectedSymbol(b)) < IndexOf(decl, ExpectedSymbol(a))

\* the first file whitelists the third, the third the second; the story interface is
\* used: its declaration comes first, then the components from the innermost
\* dependency outwards
C13_Witness ==
    /\ pc = "done"
    /\ Whitelists(KeyOrder[1], KeyOrder[3])
    /\ Whitelists(KeyOrder[3], KeyOrder[2])
    /\ DeclarationsOf(output.text) =
          <<"iSbStoryDataSchema", "buttonSchema", "buttonStorySchema", "textBlockSchema",
            "textBlockStorySchema", "cardSchema", "cardStorySchema">>

-----------------------------------------------------------------------------
(* C14: the outcome of a run and the readings of the clock                 *)

\* a step of the usage analysis that ends the run with exit status 1
AnalysisAborts == pc = "analysing" /\ pc' = "exit1"

\* a reading of the clock with which the nested call of the step creates its file
SomeReadingGoesOn ==
    \E reading \in {t \in {now, now + 1} : t <= MaxClock} :
        \A i \in 1..Len(callStack) : callStack[i].file # reading

\* C14: the outcome of a run does not depend on the values read from the clock: a
\* step of the usage analysis that ends the run in failure would have done so with
\* every reading of the clock (so two runs on the same inputs end alike and write the
\* same text).
C14_OutcomeIndependentOfClock == [][AnalysisAborts => ~SomeReadingGoesOn]_vars

-----------------------------------------------------------------------------
(* C15: dependency names that are no keys                                  *)

\* the mapping with every name that is no key removed from every dependency list
Pruned(cd) ==
    [keys |-> cd.keys,
     deps |-> [k \in DOMAIN cd.deps |-> SelectSeq(cd.deps[k], LAMBDA d : d \in Keys(cd))]]

\* C15: the result of performTopologicalSort is the one it gives for the mapping
\* without the dependency names that are no keys (the same order, or the same error);
\* an order it returns holds keys only, and it fails only when the keys have a cycle.
C15_UnknownNamesIgnored ==
    pc = "sorted" =>
       /\ sortResult = performTopologicalSort(Pruned(componentDependencies))
       /\ sortResult.kind = "order" =>
              Range(sortResult.sortedComponents) \subseteq Keys(componentDependencies)
       /\ sortResult.kind # "order" => HasCycle(componentDependencies)

\* a key lists a name that is no key before a key, and the sort returns an order
C15_Witness ==
    /\ pc = "sorted"
    /\ componentDependencies.keys = KeyOrder
    /\ componentDependencies.deps[KeyOrder[1]] = <<Ghost, KeyOrder[3]>>
    /\ componentDependencies.deps[KeyOrder[3]] = <<Ghost>>
    /\ sortResult.kind = "order"
    /\ sortResult.sortedComponents = <<KeyOrder[3], KeyOrder[1], KeyOrder[2]>>

-----------------------------------------------------------------------------
(* C16: the order of components that do not depend on each other           *)

\* neither key depends on the other, directly or through other keys
Independent(cd, a, b) == a # b /\ b \notin Reach(cd, a) /\ a \notin Reach(cd, b)

\* the position in the iteration order of the first key that is x or depends on x:
\* the round of the loop over the keys in which x is visited
FirstReachingKey(cd, x) ==
    CHOOSE i \in 1..Len(cd.keys) :
        /\ (cd.keys[i] = x \/ x \in Reach(cd, cd.keys[i]))
        /\ \A j \in 1..(i - 1) : ~(cd.keys[j] = x \/ x \in Reach(cd, cd.keys[j]))

\* C16 as stated: of two keys that do not depend on each other, the one that comes
\* first in the iteration order of the mapping comes first in the output.
C16_Original ==
    (pc = "sorted" /\ sortResult.kind = "order") =>
       \A a, b \in Keys(componentDependencies) :
          (/\ Independent(componentDependencies, a, b)
           /\ IndexOf(componentDependencies.keys, a) < IndexOf(componentDependencies.keys, b))
             => IndexOf(sortResult.sortedComponents, a) < IndexOf(sortResult.sortedComponents, b)

\* C16 (amended): of two keys that do not depend on each other, the one that is
\* reached first by the depth-first traversal comes first in the output: a comes
\* before b when the first key of the iteration order that is a or depends on a
\* stands before the first key that is b or depends on b. In particular two keys
\* that no other key depends on are emitted in iteration order.
C16_FirstReachedFirst ==
    (pc = "sorted" /\ sortResult.kind = "order") =>
       \A a, b \in Keys(componentDependencies) :
          (/\ Independent(componentDependencies, a, b)
           /\ FirstReachingKey(componentDependencies, a) < FirstReachingKey(componentDependencies, b))
             => IndexOf(sortResult.sortedComponents, a) < IndexOf(sortResult.sortedComponents, b)

\* the first key depends on the third: the third is emitted before the second although
\* the two are independent and the second comes first in the iteration order
C16_Witness ==
    /\ pc = "sorted"
    /\ componentDependencies.keys = KeyOrder
    /\ componentDependencies.deps[KeyOrder[1]] = <<KeyOrder[3]>>
    /\ componentDependencies.deps[KeyOrder[2]] = <<>>
    /\ componentDependencies.deps[KeyOrder[3]] = <<>>
    /\ Independent(componentDependencies, KeyOrder[2], KeyOrder[3])
    /\ sortResult.kind = "order"
    /\ sortResult.sortedComponents = <<KeyOrder[3], KeyOrder[1], KeyOrder[2]>>

-----------------------------------------------------------------------------
(* C17: the component that the cycle error names                           *)

\* C17: when performTopologicalSort raises the cyclic-dependency error, the component
\* it names reaches itself through one or more edges among keys: it lies on a
\* cycle, not merely on a path that leads into one.
C17_NamedComponentOnCycle ==
    (pc = "sorted" /\ sortResult.kind = "ValidationError") =>
       /\ sortResult.component \in Keys(componentDependencies)
       /\ sortResult.component \in Reach(componentDependencies, sortResult.component)

\* the first key leads into a cycle of the two others without being on it: the
\* traversal starts at the first key and the error names the second
C17_Witness ==
    /\ pc = "sorted"
    /\ componentDependencies.keys = KeyOrder
    /\ componentDependencies.deps[KeyOrder[1]] = <<KeyOrder[2]>>
    /\ componentDependencies.deps[KeyOrder[2]] = <<KeyOrder[3]>>
    /\ componentDependencies.deps[KeyOrder[3]] = <<KeyOrder[2]>>
    /\ KeyOrder[1] \notin Reach(componentDependencies, KeyOrder[1])
    /\ sortResult.kind = "ValidationError"
    /\ sortResult.component = KeyOrder[2]

-----------------------------------------------------------------------------
(* C18: the story wrapper of a converted component                         *)

\* a round of the loop of convertComponents in which the conversion succeeded
ConversionSucceeded ==
    pc = "converting" /\ idx' = idx + 1 /\ lastConversion'.kind = "ok"

ExpectedStoryKey(name) ==
    CASE name = "card" -> "card_story"
      [] name = "button" -> "button_story"
      [] name = "text-block" -> "text-block_story"

\* C18: a successful conversion appends the component's own entry to the registry of
\* converted components; when the native registry holds 'ISbStoryData' it appends
\* right after it the story-wrapper entry, which declares the component's story
\* symbol and whose one `content` member is the component's schema symbol; when
\* the native registry does not hold 'ISbStoryData' it appends nothing else.
C18_StoryWrapperRegistered ==
    [][ConversionSucceeded =>
          LET n == lastConversion'.componentName
              k == Len(convertedComponents)
              own == convertedComponents'[k + 1]
              wrapper == convertedComponents'[k + 2]
          IN /\ Len(convertedComponents') >= k + 1
             /\ SubSeq(convertedComponents', 1, k) = convertedComponents
             /\ own.name = n
             /\ DeclarationsOf(own.zodSchema) = <<ExpectedSymbol(n)>>
             /\ IF "ISbStoryData" \in NativeNames
                THEN /\ Len(convertedComponents') = k + 2
                     /\ wrapper.name = ExpectedStoryKey(n)
                     /\ DeclarationsOf(wrapper.zodSchema) = <<ExpectedStorySymbol(n)>>
                     /\ MemberLines(wrapper.zodSchema, "content")
                           = << <<"  ", "content", ": ", ExpectedSymbol(n), ",">> >>
                ELSE Len(convertedComponents') = k + 1]_vars

\* two components converted with the story interface registered: each entry is
\* followed by its wrapper
C18_Witness ==
    /\ pc = "converted"
    /\ "ISbStoryData" \in NativeNames
    /\ Len(convertedComponents) = 4
    /\ convertedComponents[1].name = "button"
    /\ convertedComponents[2].name = "button_story"
    /\ convertedComponents[3].name = "card"
    /\ convertedComponents[4].name = "card_story"
    /\ MemberLines(convertedComponents[4].zodSchema, "content")
          = << <<"  ", "content", ": ", "cardSchema", ",">> >>

-----------------------------------------------------------------------------
(* C19: the import statements of the final output                          *)

\* the import statements of a text, in the order of their lines
ImportLines(text) ==
    SelectSeq(text, LAMBDA l : Len(l) >= 2 /\ l[1] = "import " /\ " from '" \in Range(l))

\* the module path of an import statement: what stands behind `from`
PathOf(statement) ==
    statement[(CHOOSE i \in 1..Len(statement) : statement[i] = " from '") + 1]

\* the names an import statement brings into scope
ImportedNames(statement) ==
    {name \in {"z", "ZodType"} :
        \E i \in 1..Len(statement) :
            \/ statement[i] = name
            \/ statement[i] = "type " \o name
            \/ statement[i] = "* as " \o name}

NamespaceImported(statement) ==
    \E i \in 1..Len(statement) : statement[i] \in {"* as ", "* as z"}

\* the import statements that reach deduplicateImports: those of the text handed to
\* formatFinalOutput and the one that formatFinalOutput adds (line 214)
InputImports ==
    Range(ImportLines(BodyOf(NativeOrder[1]))) \cup {NamedImport(<<"z">>, "astro/zod")}

OneStatementPerPath(text) ==
    \A i, j \in 1..Len(ImportLines(text)) :
        PathOf(ImportLines(text)[i]) = PathOf(ImportLines(text)[j]) => i = j

\* every name of input statement s is imported by an output statement of s's path
NamesKept(text, s) ==
    \A name \in ImportedNames(s) :
        \E i \in 1..Len(ImportLines(text)) :
            /\ PathOf(ImportLines(text)[i]) = PathOf(s)
            /\ name \in ImportedNames(ImportLines(text)[i])

-----------------------------------------------------------------------------
(* C20: the end of the emitted text                                        *)

\* the text ends with a line break, or its last line ends with blanks
EndsWithWhitespace(text) ==
    LET last == text[Len(text)]
    IN \/ Len(text) > 1 /\ last = <<>>
       \/ last # <<>> /\ last[Len(last)] \in WhitespaceTokens

\* C20 as stated: the text that generateFinalOutput emits has no trailing whitespace,
\* written to the output file or printed to standard output.
C20_Original == pc = "done" => ~EndsWithWhitespace(output.text)

\* C20 (amended): the text handed to console.log has no trailing whitespace; the text
\* written to the output file ends with exactly one line break, which the formatter
\* puts there, and has no other trailing whitespace.
C20_TrimmedOnStdoutOnly ==
    pc = "done" =>
       IF output.kind = "stdout"
       THEN ~EndsWithWhitespace(output.text)
       ELSE /\ Len(output.text) >= 2
            /\ output.text[Len(output.text)] = <<>>
            /\ ~EndsWithWhitespace(SubSeq(output.text, 1, Len(output.text) - 1))

\* a run that wrote the declarations of two components to the output file
C20_Witness ==
    /\ pc = "done"
    /\ output.kind = "file"
    /\ Len(DeclarationsOf(output.text)) >= 2
    /\ output.text[Len(output.text)] = <<>>
    /\ output.text[Len(output.text) - 1] = <<"});">>

-----------------------------------------------------------------------------
(* C21: a field whose descriptor has an invalid shape                      *)

\* the descriptor is no object, or has no non-empty string type
InvalidShape(f) ==
    ~(f.value.t = "object" /\ f.value.type.t = "string" /\ f.value.type.v # "")

\* C21: a component with at least one valid field is converted, and every field of
\* its document whose descriptor has an invalid shape is a member of the emitted
\* object, mapped to z.any().
C21_InvalidFieldGivesAny ==
    (pc = "converted" /\ sortResult.kind = "order") =>
        \A n \in Range(files.names) :
            ConversionSucceeds(n) =>
               /\ InRegistry(n)
               /\ \A i \in 1..Len(DocFields(n)) :
                     LET f == DocFields(n)[i]
                     IN InvalidShape(f) =>
                           MemberLines(RegistryText(n), f.name)
                              = << <<"  ", f.name, ": ", "z.any()", ",">> >>

-----------------------------------------------------------------------------
(* C22: the returned list is the depth-first post-order                    *)

\* one step of a depth-first walk kept on an explicit stack of frames
\* <<key, dependencies still to look at>>; a key is finished when its frame is popped
RECURSIVE Walk(_, _, _)
Walk(cd, stack, finished) ==
    IF stack = <<>> THEN finished
    ELSE LET top == stack[Len(stack)]
             below == SubSeq(stack, 1, Len(stack) - 1)
         IN IF top[2] = <<>>
            THEN Walk(cd, below, Append(finished, top[1]))
            ELSE LET dep == Head(top[2])
                     rest == Append(below, <<top[1], Tail(top[2])>>)
                     started == {stack[i][1] : i \in 1..Len(stack)}
                 IN IF dep \in Keys(cd) /\ dep \notin Range(finished) /\ dep \notin started
                    THEN Walk(cd, Append(rest, <<dep, cd.deps[dep]>>), finished)
                    ELSE Walk(cd, rest, finished)

\* the walk started at every key in iteration order, finished keys not started again
RECURSIVE PostOrderFrom(_, _, _)
PostOrderFrom(cd, keys, finished) ==
    IF keys = <<>> THEN finished
    ELSE PostOrderFrom(cd, Tail(keys),
                       IF Head(keys) \in Range(finished) THEN finished
                       ELSE Walk(cd, << <<Head(keys), cd.deps[Head(keys)]>> >>, finished))

PostOrder(cd) == PostOrderFrom(cd, cd.keys, <<>>)

\* C22: when the sort succeeds, the returned list is exactly the depth-first post-order
\* of the mapping: keys started in iteration order, the key-dependencies of a key
\* visited in list order before the key is appended, a finished key never appended again.
C22_DepthFirstPostOrder ==
    (pc = "sorted" /\ sortResult.kind = "order") =>
        sortResult.sortedComponents = PostOrder(componentDependencies)

\* card -> [text-block, button], text-block -> [button], button -> [] gives
\* [button, text-block, card]
C22_Witness ==
    /\ pc = "sorted"
    /\ componentDependencies.keys = KeyOrder
    /\ componentDependencies.deps[KeyOrder[1]] = <<KeyOrder[3], KeyOrder[2]>>
    /\ componentDependencies.deps[KeyOrder[3]] = <<KeyOrder[2]>>
    /\ componentDependencies.deps[KeyOrder[2]] = <<>>
    /\ sortResult = [kind |-> "order",
                     sortedComponents |-> <<KeyOrder[2], KeyOrder[3], KeyOrder[1]>>]

-----------------------------------------------------------------------------
(* C23: the returned list is a permutation of the keys                     *)

Occurrences(s, x) == Cardinality({i \in 1..Len(s) : s[i] = x})

\* C23: when the sort succeeds, the returned list holds every key of the mapping exactly
\* once and nothing else, also when a dependency list names a key twice or two
\* components share a dependency.
C23_EveryKeyExactlyOnce ==
    (pc = "sorted" /\ sortResult.kind = "order") =>
        /\ Range(sortResult.sortedComponents) = Keys(componentDependencies)
        /\ \A k \in Keys(componentDependencies) :
              Occurrences(sortResult.sortedComponents, k) = 1

\* button is named twice by card and once more by text-block
C23_Witness ==
    /\ pc = "sorted"
    /\ componentDependencies.keys = KeyOrder
    /\ componentDependencies.deps[KeyOrder[1]] = <<KeyOrder[2], KeyOrder[2]>>
    /\ componentDependencies.deps[KeyOrder[3]] = <<KeyOrder[2], Ghost>>
    /\ sortResult.kind = "order"
    /\ Len(sortResult.sortedComponents) = 3

-----------------------------------------------------------------------------
(* C24: the registry of converted components is filled once, in sorted order *)

\* the keys of the registry that are component names, in insertion order
ComponentKeys(registry) ==
    SelectSeq([i \in 1..Len(registry) |-> registry[i].name],
              LAMBDA k : k \in Range(files.names))

\* every entry the registry held is still at its place, unchanged, and no key is held twice
EntriesKept ==
    /\ Len(convertedComponents') >= Len(convertedComponents)
    /\ SubSeq(convertedComponents', 1, Len(convertedComponents)) = convertedComponents
    /\ \A i, j \in 1..Len(convertedComponents') :
          convertedComponents'[i].name = convertedComponents'[j].name => i = j

\* C24: after the conversion loop the component-name keys of the registry, in insertion
\* order, are exactly the components whose conversion succeeded, in sorted order; and
\* no step of a run adds a key a second time or overwrites an entry.
C24_RegistryFilledOnceInSortedOrder ==
    /\ []((pc = "converted" /\ sortResult.kind = "order") =>
             ComponentKeys(convertedComponents)
                = SelectSeq(sortResult.sortedComponents, ConversionSucceeds))
    /\ [][EntriesKept]_vars

\* three components sorted as button, text-block, card; the conversion of text-block
\* fails, the two others are registered in sorted order, each with its wrapper
C24_Witness ==
    /\ pc = "converted"
    /\ sortResult.kind = "order"
    /\ sortResult.sortedComponents = <<"button", "text-block", "card">>
    /\ ~ConversionSucceeds("text-block")
    /\ Len(convertedComponents) = 4
    /\ ComponentKeys(convertedComponents) = <<"button", "card">>

-----------------------------------------------------------------------------
(* C25: the line scan of the formatter keeps every declaration, once       *)

\* the lines of `block` stand in `text`, one after the other
IsBlockOf(text, block) ==
    \E k \in 0..(Len(text) - Len(block)) : SubSeq(text, k + 1, k + Len(block)) = block

-----------------------------------------------------------------------------
(* C26: the used entries of the registry of native schemas                 *)

\* C26: after any sequence of set, markAsUsed and clear calls every used entry is a
\* registered entry with the same schema text, and getUsageStats reports a number of
\* used entries that does not exceed the total and a number of unused entries that
\* is not negative.
C26_UsedEntriesAreRegistered ==
    pc = "registry" =>
       /\ \A i \in 1..Len(usedNativeSchemas) :
             /\ NativeSchemaRegistry_has(usedNativeSchemas[i].name)
             /\ NativeSchemaRegistry_get(usedNativeSchemas[i].name)
                   = usedNativeSchemas[i].schemaContent
       /\ NativeSchemaRegistry_getUsageStats.used <= NativeSchemaRegistry_getUsageStats.total
       /\ NativeSchemaRegistry_getUsageStats.unused >= 0

-----------------------------------------------------------------------------
(* C27: the usage analysis comes to an end                                 *)

\* the body of native schema a has a member of the type of native schema b
Mentions(a, b) == SymbolOf(b) \in TokensOf(BodyOf(a))

\* most identifiers of one native schema text that name a native schema: its own
\* symbol and those of its members
MaxIdentifiers == MaxRefs + 1

\* the registered native schemas that are not marked
Unmarked == {n \in NativeNames : n \notin UsedNames}

RECURSIVE PendingRounds(_)
\* the rounds that the active calls of findIndirectDependencies have left, and their
\* returns: two for every identifier not looked at yet, one for every call
PendingRounds(stack) ==
    IF stack = <<>> THEN 0
    ELSE 2 * Len(Head(stack).identifiers) + 1 + PendingRounds(Tail(stack))

\* a bound on the steps the analysis has left: every text of the snapshot and every
\* unmarked schema can start one more call, of at most MaxIdentifiers identifiers
StepsLeft ==
    (2 * MaxIdentifiers + 2) * (Cardinality(Unmarked) + Len(usedSchemas))
       + PendingRounds(callStack)

\* a step of the analysis after which it still runs
AnalysisGoesOn == pc = "analysing" /\ pc' = "analysing"

\* C27: the usage analysis terminates whatever the native schemas reference: every step
\* after which the analysis still runs decreases the natural number StepsLeft, so a
\* run has finitely many of them, also when a native schema mentions itself, when
\* native schemas mention each other in a cycle, and when a mentioned native schema
\* is registered with the empty text.
C27_AnalysisTerminates == [][AnalysisGoesOn => StepsLeft' < StepsLeft]_vars

\* the analysis is over for a registry in which two schemas mention each other, the
\* component references one of them, and both were marked
C27_Witness ==
    /\ pc = "done"
    /\ \E a, b \in NativeNames :
          /\ a # b
          /\ Mentions(a, b) /\ Mentions(b, a)
          /\ DirectlyReferenced = {a}
          /\ UsedNames = {a, b}

-----------------------------------------------------------------------------
(* C28: the temporary files of the usage analysis                          *)

\* C28: the usage analysis never raises because of its temporary files: no step of it
\* ends the run, since the file that a nested call of findIndirectDependencies
\* creates has a name that no file still in the project has, whatever the clock reads.
C28_TempNamesDiffer == [][pc = "analysing" => pc' # "exit1"]_vars

-----------------------------------------------------------------------------
(* C29: the symbols that the output declares                               *)

\* C29: for distinct valid kebab-case component names, converted with or without story
\* wrappers, and the used native schemas, the symbols that the final output declares
\* are pairwise different: no symbol is declared twice.
C29_DeclaredSymbolsUnique ==
    pc = "done" =>
       LET decl == DeclarationsOf(output.text)
       IN \A i, j \in 1..Len(decl) : decl[i] = decl[j] => i = j

-----------------------------------------------------------------------------
(* C30: the symbols that the output refers to                              *)

\* the symbols of the native schemas that a field conversion or the story wrapper
\* writes, and of the interfaces of the type definitions
NativeSymbols ==
    {SymbolOf(n) : n \in Range(NativeOrder) \cup {"ISbStoryData"}}
    \cup {"iSbAlternateObjectSchema", "iSbLinkURLObjectSchema", "localizedPathSchema",
          "previewTokenSchema"}

\* the symbols of the components of the directory
ComponentSymbols == {ExpectedSymbol(KeyOrder[i]) : i \in 1..Len(KeyOrder)}

\* the schema symbols that stand in a text elsewhere than as the name declared
ReferencedSymbols(text) ==
    {t \in NativeSymbols \cup ComponentSymbols :
        \E i \in 1..Len(text) : \E j \in 1..Len(text[i]) :
            /\ text[i][j] = t
            /\ ~(j = 2 /\ text[i][1] = "export const ")}

\* C30: the final output has no dangling reference: every schema symbol that stands
\* inside a declaration of the output (of a native schema for an asset, multilink or
\* richtext field or a member of a native schema, of a component for a bloks field)
\* is declared in the output.
C30_NoDanglingReference ==
    pc = "done" => ReferencedSymbols(output.text) \subseteq Range(DeclarationsOf(output.text))

=============================================================================
